---- MODULE Spec2Model ----
(***************************************************************************)
(* State-machine model of app/services/github_service.py (GitHubService):  *)
(* the flat TTL cache, the structured cache, module location resolution,   *)
(* the provider scan, version listing and the source archive download;     *)
(* and of the login endpoints of app/api/auth.py.                          *)
(* Every coroutine is a task; one action is the code that runs from one    *)
(* await to the next (cooperative scheduling: no preemption in between).   *)
(* Python str values are TLA+ strings; str methods are the operators       *)
(* below, computed character by character.                                 *)
(***************************************************************************)
EXTENDS Integers, Sequences, FiniteSets, TLC

VARIABLES
    settings,          \* app.config.settings (fixed after start)
    upstream,          \* what the remote API serves (fixed after start)
    now,               \* time.time()
    cache,             \* GitHubService._cache: key -> [data, timestamp]
    structured_cache,  \* GitHubService.structured_cache
    tasks,             \* the coroutines in flight, by slot
    fails,             \* transient upstream failures injected so far
    started,           \* coroutines started so far
    slots,             \* how many coroutines may be in flight at once
    ev,                \* what the last step did (lookups, a clear, a return)
    hist,              \* history kept for the properties
    AUTH_CODES,        \* app/api/auth.py: AUTH_CODES, code -> its data
    auth               \* the login requests in flight, and what was issued and answered

vars == <<settings, upstream, now, cache, structured_cache, tasks, fails, started, slots, ev, hist,
          AUTH_CODES, auth>>

---------------------------------------------------------------------------
(* Bounds of the model *)
MaxTasks == 2      \* coroutines in flight at once
MaxTicks == 3      \* clock ticks with one coroutine at a time, one less per further slot
MaxFails == 1      \* injected transient failures
MaxStarts == 3     \* coroutines started in one behaviour
TickStep == 1800   \* seconds per clock tick

---------------------------------------------------------------------------
(* Python str methods *)

StartsWith(s, p) == Len(s) >= Len(p) /\ SubSeq(s, 1, Len(p)) = p

EndsWith(s, p) == Len(s) >= Len(p) /\ SubSeq(s, Len(s) - Len(p) + 1, Len(s)) = p

Drop(s, n) == SubSeq(s, n + 1, Len(s))

\* s[i-1 : i-1+n] where that is n characters long, else ""
Mid(s, i, n) == IF i >= 1 /\ i + n - 1 <= Len(s) THEN SubSeq(s, i, i + n - 1) ELSE ""

RECURSIVE LStrip(_, _)
LStrip(s, c) == IF Len(s) > 0 /\ SubSeq(s, 1, 1) = c THEN LStrip(Drop(s, 1), c) ELSE s

RECURSIVE RStrip(_, _)
RStrip(s, c) ==
    IF Len(s) > 0 /\ SubSeq(s, Len(s), Len(s)) = c
    THEN RStrip(SubSeq(s, 1, Len(s) - 1), c) ELSE s

Strip(s, c) == RStrip(LStrip(s, c), c)

RECURSIVE Replace(_, _, _)
Replace(s, a, b) ==
    IF Len(s) = 0 THEN ""
    ELSE (IF SubSeq(s, 1, 1) = a THEN b ELSE SubSeq(s, 1, 1)) \o Replace(Drop(s, 1), a, b)

Contains(s, sub) ==
    \E i \in 1..(Len(s) - Len(sub) + 1) : SubSeq(s, i, i + Len(sub) - 1) = sub

\* s.split(sep) for a one-character sep
RECURSIVE SplitAcc(_, _, _)
SplitAcc(s, sep, cur) ==
    IF Len(s) = 0 THEN <<cur>>
    ELSE IF SubSeq(s, 1, 1) = sep THEN <<cur>> \o SplitAcc(Drop(s, 1), sep, "")
    ELSE SplitAcc(Drop(s, 1), sep, cur \o SubSeq(s, 1, 1))

Split(s, sep) == SplitAcc(s, sep, "")

RECURSIVE Join(_, _)
Join(parts, sep) ==
    IF Len(parts) = 0 THEN ""
    ELSE IF Len(parts) = 1 THEN parts[1]
    ELSE parts[1] \o sep \o Join(Tail(parts), sep)

UpperCase == <<"A","B","C","D","E","F","G","H","I","J","K","L","M",
               "N","O","P","Q","R","S","T","U","V","W","X","Y","Z">>
LowerCase == <<"a","b","c","d","e","f","g","h","i","j","k","l","m",
               "n","o","p","q","r","s","t","u","v","w","x","y","z">>

LowerChar(c) ==
    IF \E i \in 1..26 : UpperCase[i] = c
    THEN LowerCase[CHOOSE i \in 1..26 : UpperCase[i] = c] ELSE c

RECURSIVE Lower(_)
Lower(s) == IF Len(s) = 0 THEN "" ELSE LowerChar(SubSeq(s, 1, 1)) \o Lower(Drop(s, 1))

UpperChar(c) ==
    IF \E i \in 1..26 : LowerCase[i] = c
    THEN UpperCase[CHOOSE i \in 1..26 : LowerCase[i] = c] ELSE c

IsLetter(c) == \E i \in 1..26 : UpperCase[i] = c \/ LowerCase[i] = c

\* s.title(): a letter after a non-letter is upper-cased, any other letter lower-cased
RECURSIVE TitleAcc(_, _)
TitleAcc(s, afterLetter) ==
    IF Len(s) = 0 THEN ""
    ELSE LET c == SubSeq(s, 1, 1) IN
         (IF ~IsLetter(c) THEN c ELSE IF afterLetter THEN LowerChar(c) ELSE UpperChar(c))
            \o TitleAcc(Drop(s, 1), IsLetter(c))

Title(s) == TitleAcc(s, FALSE)

\* str comparison is by code point: the characters the model uses, in ASCII order
Ascii == " !#-./0123456789:<=>ABCDEFGHIJKLMNOPQRSTUVWXYZ[]_abcdefghijklmnopqrstuvwxyz"

Ord(c) == CHOOSE i \in 1..Len(Ascii) : SubSeq(Ascii, i, i) = c

RECURSIVE StrLess(_, _)
StrLess(a, b) ==
    IF Len(b) = 0 THEN FALSE
    ELSE IF Len(a) = 0 THEN TRUE
    ELSE IF SubSeq(a, 1, 1) = SubSeq(b, 1, 1) THEN StrLess(Drop(a, 1), Drop(b, 1))
    ELSE Ord(SubSeq(a, 1, 1)) < Ord(SubSeq(b, 1, 1))

InSeq(x, xs) == \E i \in 1..Len(xs) : xs[i] = x

\* "/".join(path.split("/")[:-1])
DirName(path) ==
    LET parts == Split(path, "/") IN Join(SubSeq(parts, 1, Len(parts) - 1), "/")

---------------------------------------------------------------------------
(* Python values: None, and the truth value `if x:` tests *)

NoneStr == "<None>"                    \* None where a str is expected
PyNone == [py |-> "None"]
PyTuple(a, b) == [py |-> "tuple", v |-> <<a, b>>]
PyList(xs) == [py |-> "list", v |-> xs]
PyStr(s) == [py |-> "str", v |-> s]
PyDict(d) == [py |-> "dict", v |-> d]
\* markdown.markdown(raw_md, ...): the HTML rendering of a markdown text
PyHtml(raw_md) == [py |-> "html", of |-> raw_md]
\* f"{x}" of a str or None
Format(x) == IF x = "<None>" THEN "None" ELSE x
\* {"modules": [{"versions": [{"version": v} for v in vs]}]}
PyVersions(vs) == [py |-> "versions", v |-> vs]
\* the bytes of a zip file with these entries, each a [filename, data]
PyZip(entries) == [py |-> "zip", v |-> entries]

Truthy(x) ==
    CASE x.py = "None" -> FALSE
      [] x.py = "tuple" -> TRUE
      [] x.py = "list" -> Len(x.v) > 0
      [] x.py = "str" -> x.v # ""
      [] x.py = "dict" -> TRUE
      [] x.py = "versions" -> TRUE
      [] x.py = "html" -> TRUE

StrTruthy(s) == s # NoneStr /\ s # ""

\* An insertion-ordered dict: a sequence of [k, v] entries with distinct keys
DictHas(d, k) == \E i \in 1..Len(d) : d[i].k = k
DictGet(d, k) == d[CHOOSE i \in 1..Len(d) : d[i].k = k].v
DictSet(d, k, v) ==
    IF DictHas(d, k)
    THEN [i \in 1..Len(d) |-> IF d[i].k = k THEN [k |-> k, v |-> v] ELSE d[i]]
    ELSE Append(d, [k |-> k, v |-> v])
DictKeys(d) == [i \in 1..Len(d) |-> d[i].k]

---------------------------------------------------------------------------
(* Configuration: app.config.Settings *)

GetOwner ==
    IF settings.monorepo_owner # "" THEN settings.monorepo_owner ELSE settings.target_org

IsMonorepo == GetOwner # ""

---------------------------------------------------------------------------
(* The flat TTL cache *)

CacheTtl == 3600

Fresh(c, key, t) == key \in DOMAIN c /\ t - c[key].timestamp < CacheTtl

\* _get_from_cache: the value returned ...
CacheGet(c, key, t) == IF Fresh(c, key, t) THEN c[key].data ELSE PyNone

\* ... and the cache it leaves behind (an expired entry is deleted)
\* a lookup that also sweeps every other expired entry
CacheAfterGet_Sweeps(c, key, t) ==
    [k \in {x \in DOMAIN c : t - c[x].timestamp < CacheTtl} |-> c[k]]

CacheAfterGet(c, key, t) ==
    IF key \in DOMAIN c /\ ~Fresh(c, key, t)
    THEN [k \in DOMAIN c \ {key} |-> c[k]]
    ELSE c

CacheSet(c, key, data, t) ==
    [k \in DOMAIN c \cup {key} |->
        IF k = key THEN [data |-> data, timestamp |-> t] ELSE c[k]]

EmptyCache == [k \in {} |-> PyNone]

---------------------------------------------------------------------------
(* The remote API.  A request is a record; the upstream answers it from    *)
(* its repositories, or with a transient failure.                          *)

Req(ep, owner, repo, arg, page) ==
    [ep |-> ep, owner |-> owner, repo |-> repo, arg |-> arg, page |-> page]

NoReq == Req("none", "", "", "", 0)

Item(path, type) == [path |-> path, type |-> type]

TreeMain ==
    << Item("README.md", "blob"),
       Item("modules", "tree"),
       Item("modules/net", "tree"),
       Item("modules/net/vpc", "tree"),
       Item("modules/net/vpc/main.tf", "blob"),
       Item("modules/net/vpc/examples", "tree"),
       Item("modules/net/vpc/examples/main.tf", "blob") >>

TreeInfra ==
    << Item("modules/net/vpc/main.tf", "blob"),
       Item("modules/net/vpc", "tree"),
       Item("modules/net/vpc/readme.rst", "blob") >>

ReadmeInfra == [p \in {"modules/net/vpc/readme.rst"} |-> "VPC\n===\n"]

\* The commit an older tag points to: the module has a nested modules/ directory
\* and a sibling whose name starts with the module's name
TreeTagged ==
    << Item("README.md", "blob"),
       Item("modules", "tree"),
       Item("modules/net", "tree"),
       Item("modules/net/vpc", "tree"),
       Item("modules/net/vpc/main.tf", "blob"),
       Item("modules/net/vpc/modules", "tree"),
       Item("modules/net/vpc/modules/sub.tf", "blob"),
       Item("modules/net/vpc2", "tree"),
       Item("modules/net/vpc2/main.tf", "blob") >>

\* The commit of a tag set before the module existed
TreeOld ==
    << Item("README.md", "blob"),
       Item("modules", "tree"),
       Item("modules/net", "tree"),
       Item("modules/net/vpc2", "tree"),
       Item("modules/net/vpc2/main.tf", "blob") >>

TagsMain == << [name |-> "v1.2.0"], [name |-> "vv1.0"], [name |-> "1.2.0"], [name |-> "V1.0"] >>
TagsInfra == << [name |-> "v0.1.0"] >>

\* readmes: the README.md files there are, by path
Repo(branch, tree, tags, readmes) ==
    [default_branch |-> branch, tree |-> tree, tags |-> tags, readmes |-> readmes]

NoReadme == [p \in {} |-> ""]
ReadmeMain == [p \in {"modules/net/vpc/README.md"} |-> "# VPC\n\n<!-- doc -->\nCreates a VPC. \nMore.\n"]

\* An account whose repositories follow the shared-repository convention
MonoWorld ==
    [ account |-> "acme",
      pages |-> << <<"terraform-aws-modules", "docs", "infra-Terraform-AWS-modules">> >>,
      repos |-> [r \in {"terraform-aws-modules", "docs", "infra-Terraform-AWS-modules"} |->
                   CASE r = "terraform-aws-modules" -> Repo("main", TreeMain, TagsMain, ReadmeMain)
                     [] r = "infra-Terraform-AWS-modules" -> Repo("master", TreeInfra, TagsInfra, ReadmeInfra)
                     [] r = "docs" -> Repo("main", <<Item("index.md", "blob")>>, <<>>, NoReadme)],
      snaps |-> [x \in {<<"terraform-aws-modules", "v1.2.0">>,
                        <<"terraform-aws-modules", "V1.0">>} |->
                   IF x[2] = "V1.0" THEN TreeOld ELSE TreeTagged] ]

\* An account with one repository per module
MultiWorld ==
    [ account |-> "acme",
      pages |-> << <<"net_vpc", "terraform-aws-net_vpc", "terraform-aws-db">> >>,
      repos |-> [r \in {"net_vpc", "terraform-aws-net_vpc", "terraform-aws-db"} |->
                   Repo("main", <<Item("main.tf", "blob")>>, TagsMain, NoReadme)],
      snaps |-> [x \in {} |-> <<>>] ]

\* The commit a tag of the globex repository points to
TreeGlobex ==
    << Item("modules/a/b/c/main.tf", "blob"),
       Item("modules/a/b-c/main.tf", "blob"),
       Item("modules/a/b/c/README.md", "blob") >>

ReadmeGlobex == [p \in {"modules/a/b/c/README.md"} |-> "Subnets of a network.\n"]

\* An account with two directories that flatten to one name, and a provider
\* repository without any module
GlobexWorld ==
    [ account |-> "globex",
      pages |-> << <<"empty-terraform-aws-modules", "terraform-aws-modules">> >>,
      repos |-> [r \in {"empty-terraform-aws-modules", "terraform-aws-modules"} |->
                   IF r = "terraform-aws-modules"
                   THEN Repo("main", TreeGlobex, TagsInfra, ReadmeGlobex)
                   ELSE Repo("main", <<Item("README.md", "blob")>>, <<>>, NoReadme)],
      snaps |-> [x \in {} |-> <<>>] ]

\* A repository with a directory that only shares the prefix string, a module
\* file directly in modules/, a tests directory, and a directory modules/db
\* that holds no module file itself
TreeLegacy ==
    << Item("modules", "tree"),
       Item("modules/main.tf", "blob"),
       Item("modules/db", "tree"),
       Item("modules/db/pg", "tree"),
       Item("modules/db/pg/main.tf", "blob"),
       Item("modules/net/vpc/peering", "tree"),
       Item("modules/net/vpc/peering/main.tf", "blob"),
       Item("modules/net/vpc/tests", "tree"),
       Item("modules/net/vpc/tests/main.tf", "blob"),
       Item("modulesx", "tree"),
       Item("modulesx/y", "tree"),
       Item("modulesx/y/main.tf", "blob") >>

\* A repository whose modules/db is a module
TreeDb ==
    << Item("modules", "tree"),
       Item("modules/db", "tree"),
       Item("modules/db/main.tf", "blob") >>

\* An account whose first provider repository is the legacy one, and whose
\* listing names one repository on two pages
UmbrellaWorld ==
    [ account |-> "umbrella",
      pages |-> << <<"legacy-terraform-aws-modules", "terraform-aws-modules">>,
                   <<"terraform-aws-modules">> >>,
      repos |-> [r \in {"legacy-terraform-aws-modules", "terraform-aws-modules"} |->
                   IF r = "terraform-aws-modules"
                   THEN Repo("main", TreeDb, TagsInfra, NoReadme)
                   ELSE Repo("main", TreeLegacy, TagsInfra, NoReadme)],
      snaps |-> [x \in {} |-> <<>>] ]

\* A user account with the shared repositories of two providers
InitechWorld ==
    [ account |-> "initech",
      pages |-> << <<"terraform-aws-modules", "terraform-gcp-modules">> >>,
      repos |-> [r \in {"terraform-aws-modules", "terraform-gcp-modules"} |->
                   IF r = "terraform-aws-modules"
                   THEN Repo("main", <<Item("modules/net/vpc/main.tf", "blob")>>, TagsInfra, NoReadme)
                   ELSE Repo("main", <<Item("modules/dns/main.tf", "blob")>>, <<>>, NoReadme)],
      snaps |-> [x \in {} |-> <<>>] ]

\* A repository whose directories under modules/ are themselves called module
\* and modules
TreeHooli ==
    << Item("modules/net/vpc/main.tf", "blob"),
       Item("modules/modules/modules/y/main.tf", "blob"),
       Item("modules/module-module/x/main.tf", "blob") >>

\* An account with the shared repository of one provider
HooliWorld ==
    [ account |-> "hooli",
      pages |-> << <<"terraform-aws-modules">> >>,
      repos |-> [r \in {"terraform-aws-modules"} |->
                   Repo("main", TreeHooli, TagsInfra, NoReadme)],
      snaps |-> [x \in {} |-> <<>>] ]

\* A user account whose listing never ends: every page of it, whatever its
\* number, names the same repository
PiedWorld ==
    [ account |-> "pied",
      pages |-> << <<"terraform-aws-modules">> >>,
      repos |-> [r \in {"terraform-aws-modules"} |->
                   Repo("main", <<Item("modules/dns/main.tf", "blob")>>, <<>>, NoReadme)],
      snaps |-> [x \in {} |-> <<>>] ]

\* the accounts that are users, not organizations
UserAccounts == {"initech", "pied"}

\* the accounts whose listing has no last page
EndlessAccounts == {"pied"}

MakeSettings(org, owner, name) ==
    [target_org |-> org, monorepo_owner |-> owner, monorepo_name |-> name, auth_api_key |-> ""]

DiscoverySettings == MakeSettings("acme", "", "")
PinnedSettings == MakeSettings("", "acme", "terraform-aws-modules")
PinnedInfra == MakeSettings("", "acme", "infra-Terraform-AWS-modules")
MultiSettings == MakeSettings("", "", "")
GlobexSettings == MakeSettings("globex", "", "")
GlobexPinned == MakeSettings("", "globex", "terraform-aws-modules")
UmbrellaSettings == MakeSettings("umbrella", "", "")
InitechSettings == MakeSettings("initech", "", "")
HooliSettings == MakeSettings("hooli", "", "")
PiedSettings == MakeSettings("pied", "", "")
HooliPinned == MakeSettings("", "hooli", "terraform-aws-modules")

WorldFor(st) ==
    IF st.monorepo_owner = "" /\ st.target_org = "" THEN MultiWorld
    ELSE IF "globex" \in {st.monorepo_owner, st.target_org} THEN GlobexWorld
    ELSE IF "umbrella" \in {st.monorepo_owner, st.target_org} THEN UmbrellaWorld
    ELSE IF "initech" \in {st.monorepo_owner, st.target_org} THEN InitechWorld
    ELSE IF "hooli" \in {st.monorepo_owner, st.target_org} THEN HooliWorld
    ELSE IF "pied" \in {st.monorepo_owner, st.target_org} THEN PiedWorld
    ELSE MonoWorld

Response(status, body) == [status |-> status, body |-> body, injected |-> FALSE]
Failure == [status |-> 500, body |-> <<>>, injected |-> TRUE]

\* An entry of a zip file
Entry(filename, data) == [filename |-> filename, data |-> data]

\* The snapshot archive of a repository: a root folder owner-repo-sha/ and under
\* it the tree, directories with a trailing slash and no data
Archive(owner, repo, tree) ==
    LET root == owner \o "-" \o repo \o "-abc123" IN
    [ bad |-> FALSE,
      entries |-> <<Entry(root \o "/", "")>> \o
                  [i \in 1..Len(tree) |->
                     IF tree[i].type = "tree"
                     THEN Entry(root \o "/" \o tree[i].path \o "/", "")
                     ELSE Entry(root \o "/" \o tree[i].path, "#" \o tree[i].path)] ]

\* The tree of the commit that ref points to
SnapshotTree(w, repo, ref) ==
    IF <<repo, ref>> \in DOMAIN w.snaps THEN w.snaps[<<repo, ref>>] ELSE w.repos[repo].tree

\* A request for a file or directory names it as path, or path@ref with ?ref=
PathOf(arg) == Split(arg, "@")[1]

WithRef(path, ref) == IF ref = "" THEN path ELSE path \o "@" \o ref

\* the ref of the request, if it has one, is a tag of the repository
AtRef(w, rq) ==
    LET parts == Split(rq.arg, "@") IN
    Len(parts) < 2 \/ \E i \in 1..Len(w.repos[rq.repo].tags) :
                          w.repos[rq.repo].tags[i].name = parts[2]

\* contents/{path} of a directory: its files and directories, in tree order
Listing(tree, path) ==
    LET names == [i \in 1..Len(tree) |->
                    IF StartsWith(tree[i].path, path \o "/")
                    THEN Split(Drop(tree[i].path, Len(path) + 1), "/") ELSE <<>>]
        RECURSIVE Walk(_, _)
        Walk(i, seen) ==
            IF i > Len(tree) THEN <<>>
            ELSE IF Len(names[i]) = 0 \/ names[i][1] \in seen THEN Walk(i + 1, seen)
            ELSE << [name |-> names[i][1],
                     path |-> path \o "/" \o names[i][1],
                     type |-> IF Len(names[i]) = 1 /\ tree[i].type = "blob"
                              THEN "file" ELSE "dir",
                     html_url |-> "https://github.com/tree/" \o path \o "/" \o names[i][1]] >>
                 \o Walk(i + 1, seen \cup {names[i][1]})
    IN Walk(1, {})

\* The answer of a healthy upstream
Answer(w, rq) ==
    LET known == rq.owner = w.account /\ rq.repo \in DOMAIN w.repos IN
    CASE rq.ep \in {"orgs_repos", "users_repos"} ->
            IF rq.owner # w.account THEN Response(404, <<>>)
            ELSE IF rq.ep = "orgs_repos" /\ w.account \in UserAccounts THEN Response(404, <<>>)
            ELSE IF w.account \in EndlessAccounts
                 THEN Response(200, [i \in 1..Len(w.pages[1]) |-> [name |-> w.pages[1][i]]])
            ELSE IF rq.page \in 1..Len(w.pages)
                 THEN Response(200, [i \in 1..Len(w.pages[rq.page]) |->
                                        [name |-> w.pages[rq.page][i]]])
                 ELSE Response(200, <<>>)
      [] rq.ep = "repo" ->
            IF known THEN Response(200, [default_branch |-> w.repos[rq.repo].default_branch])
            ELSE Response(404, <<>>)
      [] rq.ep = "tree" ->
            IF known /\ rq.arg = w.repos[rq.repo].default_branch
            THEN Response(200, [tree |-> w.repos[rq.repo].tree])
            ELSE Response(404, <<>>)
      [] rq.ep = "tags" ->
            IF known THEN Response(200, w.repos[rq.repo].tags) ELSE Response(404, <<>>)
      [] rq.ep = "zipball" ->
            IF known /\ \E i \in 1..Len(w.repos[rq.repo].tags) :
                            w.repos[rq.repo].tags[i].name = rq.arg
            THEN Response(200, Archive(rq.owner, rq.repo, SnapshotTree(w, rq.repo, rq.arg)))
            ELSE Response(404, <<>>)
      [] rq.ep = "contents" ->
            IF known /\ AtRef(w, rq) /\ PathOf(rq.arg) \in DOMAIN w.repos[rq.repo].readmes
            THEN Response(200, w.repos[rq.repo].readmes[PathOf(rq.arg)])
            ELSE Response(404, "")
      [] rq.ep = "dir" ->
            IF known /\ AtRef(w, rq) /\ Len(Listing(w.repos[rq.repo].tree, PathOf(rq.arg))) > 0
            THEN Response(200, Listing(w.repos[rq.repo].tree, PathOf(rq.arg)))
            ELSE Response(404, <<>>)
      [] rq.ep = "readme" ->
            IF known /\ AtRef(w, rq) /\ "README.md" \in DOMAIN w.repos[rq.repo].readmes
            THEN Response(200, w.repos[rq.repo].readmes["README.md"])
            ELSE Response(404, "")
      [] rq.ep = "org" ->
            IF rq.owner = w.account /\ w.account \notin UserAccounts
            THEN Response(200, <<>>) ELSE Response(404, <<>>)
      [] rq.ep = "user" ->
            IF rq.owner = w.account THEN Response(200, <<>>) ELSE Response(404, <<>>)
      [] rq.ep = "rate_limit" -> Response(200, <<>>)
      [] OTHER -> Response(404, <<>>)

\* A download that arrives with status 200 and bytes that are no zip file, and
\* one whose zip file has no entry
Corrupt == [status |-> 200, body |-> [bad |-> TRUE, entries |-> <<>>], injected |-> TRUE]
Hollow == [status |-> 200, body |-> [bad |-> FALSE, entries |-> <<>>], injected |-> TRUE]

\* What a request may be answered with
Answers(rq) ==
    {Answer(upstream, rq)}
       \cup (IF fails < MaxFails THEN {Failure} ELSE {})
       \cup (IF fails < MaxFails /\ rq.ep = "zipball" THEN {Corrupt, Hollow} ELSE {})

---------------------------------------------------------------------------
(* Coroutines *)

Tasks == 1..MaxTasks

IdleTask ==
    [ op |-> "idle", pc |-> "idle",
      ns |-> "", name |-> "", prov |-> "", ver |-> "", enrich |-> FALSE,
      req |-> NoReq, calls |-> 0,
      key |-> "", cands |-> <<>>, i |-> 0, branch |-> "", inres |-> FALSE,
      repo |-> NoneStr, rel |-> NoneStr,
      page |-> 0, all_repos |-> <<>>,
      repos |-> <<>>, j |-> 0, todo |-> <<>>, versions |-> <<>>,
      vmap |-> <<>>, all_modules |-> <<>>,
      trail |-> <<>>, flat |-> 0, wrote |-> {}, dl |-> <<>>, dlres |-> <<>>,
      listing |-> PyNone, snap |-> PyNone, failed |-> {}, probes |-> <<>>, tagged |-> <<>>,
      sub |-> "", plist |-> <<>>, pi |-> 0, access |-> FALSE, log |-> "",
      pre |-> [sc |-> FALSE, vers |-> {}, flat |-> PyNone, age |-> 0],
      expect |-> PyNone, negwin |-> FALSE, afterclear |-> FALSE,
      result |-> PyNone ]

\* fin: the coroutine that returned in this step, as it was when it returned
NoEv == [looked |-> {}, cleared |-> FALSE, fin |-> IdleTask]

\* The running context of a step: cache, structured cache, the task, the step's log
Cx(t) == [c |-> cache, s |-> structured_cache, k |-> tasks[t], e |-> NoEv]

\* await client.get(...): the request goes out and the coroutine suspends at pc
Send(cx, rq, pc) ==
    [cx EXCEPT !.k.req = rq, !.k.pc = pc, !.k.calls = @ + 1]

\* self._get_from_cache(key), the cache side
Lookup(cx, key) ==
    [cx EXCEPT !.c = CacheAfterGet(cx.c, key, now),
               !.k.flat = @ + 1,
               !.e.looked = @ \cup {key}]

\* self._set_to_cache(key, data)
Store(cx, key, data) ==
    [cx EXCEPT !.c = CacheSet(cx.c, key, data, now),
               !.k.flat = @ + 1,
               !.k.wrote = @ \cup {key}]

Stage(cx, name) ==
    IF Len(cx.k.trail) > 0 /\ cx.k.trail[Len(cx.k.trail)] = name THEN cx
    ELSE [cx EXCEPT !.k.trail = Append(@, name)]

\* the coroutine returns value
Finish(cx, value) == [cx EXCEPT !.k.pc = "done", !.k.result = value, !.k.req = NoReq]

---------------------------------------------------------------------------
(* Names and paths *)

Prefix == "modules"

\* rel.replace("/", "_").replace("-", "_") with one leading modules_/module_ cut
FlatName(rel) ==
    LET c == Replace(Replace(rel, "/", "_"), "-", "_") IN
    IF StartsWith(c, "modules_") THEN Drop(c, 8)
    ELSE IF StartsWith(c, "module_") THEN Drop(c, 7)
    ELSE c

\* The file-based pass: the relative path a tree item stands for, "" when skipped
FileRelPath(item) ==
    IF item.type # "blob" \/ ~EndsWith(item.path, ".tf") THEN ""
    ELSE LET dirname == DirName(item.path) IN
         IF dirname = "" \/ ~StartsWith(dirname, Prefix) THEN ""
         ELSE LStrip(Drop(dirname, Len(Prefix)), "/")

\* The directory pass: the relative path of a directory entry, "" when skipped
DirRelPath(item) ==
    IF item.type # "tree" \/ ~StartsWith(item.path, Prefix) THEN ""
    ELSE LStrip(Drop(item.path, Len(Prefix)), "/")

\* The first relative path, in tree order, whose flattened name is name
FirstMatch(rels, name) ==
    LET hit == {i \in 1..Len(rels) : rels[i] # "" /\ FlatName(rels[i]) = name} IN
    IF hit = {} THEN NoneStr
    ELSE rels[CHOOSE i \in hit : \A j \in hit : i <= j]

\* re.compile(rf".*terraform-{provider}-modules$", re.IGNORECASE).match(repo)
IsProviderRepo(repo, prov) ==
    EndsWith(Lower(repo), Lower("terraform-" \o prov \o "-modules"))

LocationKey(ns, name, prov) == "location:" \o ns \o ":" \o name \o ":" \o prov

---------------------------------------------------------------------------
(* The structured cache: provider -> groups -> parents -> modules, each    *)
(* level a dict in insertion order                                         *)

RECURSIVE Concat(_)
Concat(ss) == IF Len(ss) = 0 THEN <<>> ELSE Head(ss) \o Concat(Tail(ss))

\* The module entries of a provider node in iteration order
NodeEntries(p_node) ==
    Concat([g \in 1..Len(p_node.groups) |->
        Concat([pa \in 1..Len(p_node.groups[g].v.parents) |->
            p_node.groups[g].v.parents[pa].v.modules])])

\* The records stored under provider for name, in iteration order
ScFind(s, prov, name) ==
    IF ~DictHas(s, prov) THEN <<>>
    ELSE LET es == NodeEntries(DictGet(s, prov)) IN
         LET hit == SelectSeq(es, LAMBDA e : e.k = name) IN
         [i \in 1..Len(hit) |-> hit[i].v]

---------------------------------------------------------------------------
(* What a caller does with a resolved location *)

TagsKey(repo) == "tags:" \o repo

\* tag["name"].lstrip("v")
VersionOf(tag) == LStrip(tag.name, "v")

VersionsOf(tags) == [i \in 1..Len(tags) |-> VersionOf(tags[i])]

VersionsKey(ns, name, prov) == "versions:" \o ns \o ":" \o name \o ":" \o prov

\* repo_owner = self._get_owner() if self.is_monorepo() else namespace
RepoOwner(k) == IF IsMonorepo THEN GetOwner ELSE k.ns

\* get_versions after its tag request: lines 601-617
VersionsTags(cx, resp) ==
    IF resp.status # 200 THEN Finish(cx, PyList(<<>>))
    ELSE LET result == PyVersions([i \in 1..Len(resp.body) |-> VersionOf(resp.body[i])])
             cx1 == [cx EXCEPT !.k.listing = PyList(resp.body)]
         IN Finish(Store(cx1, VersionsKey(cx.k.ns, cx.k.name, cx.k.prov), result), result)

\* a repackager that records the failed download of a corrupt archive in the flat cache
ZipBuild_StoresCorrupt(cx0, resp) ==
    LET cx == [cx0 EXCEPT !.k.snap = IF resp.body.bad THEN PyStr("not a zip file")
                                     ELSE PyZip(resp.body.entries)]
        k == cx.k
        infolist == resp.body.entries
        names == [i \in 1..Len(infolist) |-> infolist[i].filename]
        target_path ==
            IF IsMonorepo
            THEN Strip(IF StrTruthy(k.rel) THEN Prefix \o "/" \o k.rel ELSE Prefix, "/")
            ELSE ""
        root_dir == Split(names[1], "/")[1]
        sp0 == IF target_path # "" THEN root_dir \o "/" \o target_path ELSE root_dir
        search_prefix == IF EndsWith(sp0, "/") THEN sp0 ELSE sp0 \o "/"
        kept == SelectSeq(infolist, LAMBDA f : /\ StartsWith(f.filename, search_prefix)
                                               /\ f.filename # search_prefix)
    IN
    IF resp.body.bad THEN Finish(Store(cx, "source:" \o k.key, PyNone), PyNone)
    ELSE IF Len(names) = 0 THEN Finish(cx, PyNone)
    ELSE Finish(cx, PyZip([i \in 1..Len(kept) |->
                     Entry(Drop(kept[i].filename, Len(search_prefix)), kept[i].data)]))

\* a repackager that matches entries by the prefix without its closing slash
ZipBuild_SharedPrefix(cx0, resp) ==
    LET cx == [cx0 EXCEPT !.k.snap = IF resp.body.bad THEN PyStr("not a zip file")
                                     ELSE PyZip(resp.body.entries)]
        k == cx.k
        infolist == resp.body.entries
        names == [i \in 1..Len(infolist) |-> infolist[i].filename]
        target_path ==
            IF IsMonorepo
            THEN Strip(IF StrTruthy(k.rel) THEN Prefix \o "/" \o k.rel ELSE Prefix, "/")
            ELSE ""
        root_dir == Split(names[1], "/")[1]
        sp0 == IF target_path # "" THEN root_dir \o "/" \o target_path ELSE root_dir
        search_prefix == sp0
        kept == SelectSeq(infolist, LAMBDA f : /\ StartsWith(f.filename, search_prefix)
                                               /\ f.filename # search_prefix)
    IN
    IF resp.body.bad THEN Finish(cx, PyNone)
    ELSE IF Len(names) = 0 THEN Finish(cx, PyNone)
    ELSE Finish(cx, PyZip([i \in 1..Len(kept) |->
                     Entry(Drop(kept[i].filename, Len(search_prefix)), kept[i].data)]))

\* a repackager that removes the snapshot root only
ZipBuild_KeepsPrefix(cx0, resp) ==
    LET cx == [cx0 EXCEPT !.k.snap = IF resp.body.bad THEN PyStr("not a zip file")
                                     ELSE PyZip(resp.body.entries)]
        k == cx.k
        infolist == resp.body.entries
        names == [i \in 1..Len(infolist) |-> infolist[i].filename]
        target_path ==
            IF IsMonorepo
            THEN Strip(IF StrTruthy(k.rel) THEN Prefix \o "/" \o k.rel ELSE Prefix, "/")
            ELSE ""
        root_dir == Split(names[1], "/")[1]
        sp0 == IF target_path # "" THEN root_dir \o "/" \o target_path ELSE root_dir
        search_prefix == IF EndsWith(sp0, "/") THEN sp0 ELSE sp0 \o "/"
        kept == SelectSeq(infolist, LAMBDA f : /\ StartsWith(f.filename, search_prefix)
                                               /\ f.filename # search_prefix)
    IN
    IF resp.body.bad THEN Finish(cx, PyNone)
    ELSE IF Len(names) = 0 THEN Finish(cx, PyNone)
    ELSE Finish(cx, PyZip([i \in 1..Len(kept) |->
                     Entry(Drop(kept[i].filename, Len(root_dir) + 1), kept[i].data)]))

\* get_module_source_zip once it has a 200 response: lines 652-706
ZipBuild(cx0, resp) ==
    LET cx == [cx0 EXCEPT !.k.snap = IF resp.body.bad THEN PyStr("not a zip file")
                                     ELSE PyZip(resp.body.entries)]
        k == cx.k
        infolist == resp.body.entries
        names == [i \in 1..Len(infolist) |-> infolist[i].filename]
        target_path ==
            IF IsMonorepo
            THEN Strip(IF StrTruthy(k.rel) THEN Prefix \o "/" \o k.rel ELSE Prefix, "/")
            ELSE ""
        root_dir == Split(names[1], "/")[1]
        sp0 == IF target_path # "" THEN root_dir \o "/" \o target_path ELSE root_dir
        search_prefix == IF EndsWith(sp0, "/") THEN sp0 ELSE sp0 \o "/"
        kept == SelectSeq(infolist, LAMBDA f : /\ StartsWith(f.filename, search_prefix)
                                               /\ f.filename # search_prefix)
    IN
    IF resp.body.bad THEN Finish(cx, PyNone)
    ELSE IF Len(names) = 0 THEN Finish(cx, PyNone)
    ELSE Finish(cx, PyZip([i \in 1..Len(kept) |->
                     Entry(Drop(kept[i].filename, Len(search_prefix)), kept[i].data)]))

\* the request for the snapshot of ref
Download(cx, ref, pc) ==
    Send([cx EXCEPT !.k.dl = Append(@, ref)],
         Req("zipball", RepoOwner(cx.k), cx.k.repo, ref, 0), pc)

\* lines 640-646: the answer to the v{version} request
ZipFirst(cx, resp) ==
    LET cx1 == [cx EXCEPT !.k.dlres = Append(@, resp.status)] IN
    IF resp.status # 200 THEN Download(cx1, cx.k.ver, "z_second")
    ELSE ZipBuild(cx1, resp)

\* a download that goes back to the v{version} snapshot after the second failure
ZipSecond_TriesAgain(cx, resp) ==
    LET cx1 == [cx EXCEPT !.k.dlres = Append(@, resp.status)] IN
    IF resp.status # 200
    THEN IF Len(cx.k.dl) < 3 THEN Download(cx1, "v" \o cx.k.ver, "z_second")
         ELSE Finish(cx1, PyNone)
    ELSE ZipBuild(cx1, resp)

\* lines 646-650: the answer to the {version} request
ZipSecond(cx, resp) ==
    LET cx1 == [cx EXCEPT !.k.dlres = Append(@, resp.status)] IN
    IF resp.status # 200 THEN Finish(cx1, PyNone)
    ELSE ZipBuild(cx1, resp)

---------------------------------------------------------------------------
(* get_readme, get_examples, get_repo_details once the location is known *)

ReadmeKey(k) ==
    "readme:" \o k.ns \o ":" \o k.name \o ":" \o k.prov \o ":" \o Format(k.ver)

ExamplesKey(k) ==
    "examples:" \o k.ns \o ":" \o k.name \o ":" \o k.prov \o ":" \o Format(k.ver)

DetailsKey(k) == "repo_details:" \o k.ns \o ":" \o k.name \o ":" \o k.prov

\* params["ref"]: f"v{version}" unless the version starts with v; "" without version
RefOf(ver) ==
    IF ~StrTruthy(ver) THEN "" ELSE IF StartsWith(ver, "v") THEN ver ELSE "v" \o ver

\* path of get_readme: lines 787-791
ReadmePath(k) == IF IsMonorepo THEN "/" \o Prefix \o "/" \o Format(k.rel) ELSE ""

\* a lookup that opens the provider's node in the catalog for what it fetched
ReadmeEnd_OpensNode(cx, content) ==
    LET key == ReadmeKey(cx.k)
        cy == [cx EXCEPT !.s = IF DictHas(cx.s, cx.k.prov) THEN cx.s
                               ELSE DictSet(cx.s, cx.k.prov, [groups |-> <<>>])]
    IN
    IF content = PyNone \/ content = PyStr("")
    THEN IF IsMonorepo /\ ReadmePath(cx.k) # ""
         THEN Finish(Store(cx, key, PyNone), PyNone)
         ELSE Finish(Store(cx, key, PyStr("Error fetching readme")),
                     PyStr("Error fetching readme"))
    ELSE Finish(Store(cy, key, content), content)

\* lines 840-851: what get_readme stores and returns
ReadmeEnd(cx, content) ==
    LET key == ReadmeKey(cx.k) IN
    IF content = PyNone \/ content = PyStr("")
    THEN IF IsMonorepo /\ ReadmePath(cx.k) # ""
         THEN Finish(Store(cx, key, PyNone), PyNone)
         ELSE Finish(Store(cx, key, PyStr("Error fetching readme")),
                     PyStr("Error fetching readme"))
    ELSE Finish(Store(cx, key, content), content)

\* lines 804-838: the request for the README
ReadmeLocated(cx) ==
    LET path == ReadmePath(cx.k) IN
    IF path # ""
    THEN Send(cx, Req("contents", RepoOwner(cx.k), cx.k.repo,
                      WithRef(Strip(path, "/") \o "/README.md", RefOf(cx.k.ver)), 0), "m_first")
    ELSE Send(cx, Req("readme", RepoOwner(cx.k), cx.k.repo, WithRef("", RefOf(cx.k.ver)), 0),
              "m_root")

\* lines 810-832: the answer for README.md
ReadmeFirst(cx, resp) ==
    IF resp.status = 404
    THEN Send(cx, Req("dir", RepoOwner(cx.k), cx.k.repo,
                      WithRef(Strip(ReadmePath(cx.k), "/"), RefOf(cx.k.ver)), 0), "m_dir")
    ELSE IF resp.status = 200 THEN ReadmeEnd(cx, PyStr(resp.body))
    ELSE ReadmeEnd(cx, PyNone)

\* lines 818-830: the directory listing
ReadmeDir(cx, resp) ==
    IF resp.status # 200 THEN ReadmeEnd(cx, PyNone)
    ELSE LET cands == SelectSeq(resp.body, LAMBDA f : StartsWith(Lower(f.name), "readme"))
             mds == SelectSeq(cands, LAMBDA f : EndsWith(Lower(f.name), ".md"))
         IN IF Len(cands) = 0 THEN ReadmeEnd(cx, PyNone)
            ELSE Send(cx, Req("contents", RepoOwner(cx.k), cx.k.repo,
                              WithRef((IF Len(mds) > 0 THEN mds[1] ELSE cands[1]).path,
                                      RefOf(cx.k.ver)), 0), "m_file")

\* lines 828-830 and 836-838: the answer for the file found, or for /readme
ReadmeFile(cx, resp) ==
    IF resp.status = 200 THEN ReadmeEnd(cx, PyStr(resp.body)) ELSE ReadmeEnd(cx, PyNone)

\* get_examples after its request: lines 902-922
ExamplesDir(cx, resp) ==
    LET key == ExamplesKey(cx.k) IN
    IF resp.status # 200 THEN Finish(Store(cx, key, PyList(<<>>)), PyList(<<>>))
    ELSE LET dirs == SelectSeq(resp.body, LAMBDA f : f.type = "dir")
             examples == PyList([i \in 1..Len(dirs) |->
                                   [name |-> dirs[i].name, url |-> dirs[i].html_url]])
         IN Finish(Store(cx, key, examples), examples)

\* lines 887-902
ExamplesLocated(cx) ==
    LET path == IF IsMonorepo THEN Prefix \o "/" \o Format(cx.k.rel) ELSE ""
        examples_path == IF path # "" THEN path \o "/examples" ELSE "examples"
    IN Send(cx, Req("dir", RepoOwner(cx.k), cx.k.repo,
                    WithRef(examples_path, RefOf(cx.k.ver)), 0), "e_dir")

\* get_repo_details after its request: lines 1048-1054
DetailsRepo(cx, resp) ==
    LET key == DetailsKey(cx.k) IN
    IF resp.status # 200 THEN Finish(Store(cx, key, PyNone), PyNone)
    ELSE Finish(Store(cx, key, PyDict(resp.body)), PyDict(resp.body))

AfterLocation(cx, repo, rel) ==
    LET cy == [cx EXCEPT !.k.repo = repo, !.k.rel = rel] IN
    CASE cx.k.op = "resolve" -> Finish(cy, PyTuple(repo, rel))
      [] cx.k.op = "readme" ->
            IF ~StrTruthy(repo) THEN Finish(cy, PyNone) ELSE ReadmeLocated(cy)
      [] cx.k.op = "examples" ->
            IF ~StrTruthy(repo) THEN Finish(cy, PyList(<<>>)) ELSE ExamplesLocated(cy)
      [] cx.k.op = "details" ->
            IF ~StrTruthy(repo) THEN Finish(cy, PyNone)
            ELSE Send(cy, Req("repo", RepoOwner(cy.k), repo, "", 0), "d_repo")
      [] cx.k.op = "versions" ->
            IF ~StrTruthy(repo) THEN Finish(cy, PyNone)
            ELSE Send(cy, Req("tags", RepoOwner(cy.k), repo, "", 0), "v_tags")
      [] cx.k.op = "zip" ->
            IF ~StrTruthy(repo) THEN Finish(cy, PyNone)
            ELSE Download(cy, "v" \o cy.k.ver, "z_first")
      [] OTHER -> Finish(cy, PyNone)

---------------------------------------------------------------------------
(* _get_repo_name, one repository per module: lines 173-188 *)

ProbeBegin(cx) ==
    Send(Stage(cx, "Resolve"), Req("repo", cx.k.ns, cx.k.name, "", 0), "g_probe1")

\* the probe's result goes back to _resolve_module_location (lines 79-81) or
\* straight to the public operation that called _get_repo_name
ProbeReturn(cx, repo) ==
    IF cx.k.inres
    THEN AfterLocation(Store(Stage(cx, "CacheAndReturn"), cx.k.key, PyTuple(repo, "")), repo, "")
    ELSE AfterLocation(cx, repo, "")

\* the existence check of the pending request came back with resp
Probed(cx, resp) ==
    [cx EXCEPT !.k.probes = Append(@, [repo |-> cx.k.req.repo, status |-> resp.status])]

\* a probe that goes on to the conventional name whatever the first answer was
ProbeDirect_AlwaysBoth(cx0, resp) ==
    LET cx == Probed(cx0, resp) IN
    Send(cx, Req("repo", cx.k.ns, "terraform-" \o cx.k.prov \o "-" \o cx.k.name, "", 0),
         "g_probe2")

ProbeDirect(cx0, resp) ==
    LET cx == Probed(cx0, resp) IN
    IF resp.status = 200 THEN ProbeReturn(cx, cx.k.name)
    ELSE Send(cx, Req("repo", cx.k.ns, "terraform-" \o cx.k.prov \o "-" \o cx.k.name, "", 0),
              "g_probe2")

ProbeConvention(cx0, resp) ==
    LET cx == Probed(cx0, resp) IN
    IF resp.status = 200 THEN ProbeReturn(cx, cx.k.req.repo)
    ELSE ProbeReturn(cx, NoneStr)

---------------------------------------------------------------------------
(* _resolve_module_location: lines 55-164 *)

\* a resolver that returns unresolved without storing the negative result
CandLoop_Forgets(cx) ==
    IF cx.k.i > Len(cx.k.cands)
    THEN AfterLocation(Stage(cx, "CacheAndReturn"), NoneStr, NoneStr)
    ELSE Send(Stage(cx, "Resolve"), Req("repo", GetOwner, cx.k.cands[cx.k.i], "", 0), "r_repo")

\* for repo_name in candidate_repos: ... ; after the loop the negative entry
CandLoop(cx) ==
    IF cx.k.i > Len(cx.k.cands)
    THEN AfterLocation(Store(Stage(cx, "CacheAndReturn"), cx.k.key, PyTuple(NoneStr, NoneStr)),
                       NoneStr, NoneStr)
    ELSE Send(Stage(cx, "Resolve"), Req("repo", GetOwner, cx.k.cands[cx.k.i], "", 0), "r_repo")

NextCand(cx) == CandLoop([cx EXCEPT !.k.i = @ + 1])

\* a resolver that consults the flat cache before the structured cache
ResolveBegin_FlatFirst(cx) ==
    LET k == cx.k
        key == LocationKey(k.ns, k.name, k.prov)
        cached == CacheGet(cx.c, key, now)
        cx1 == Lookup(Stage([cx EXCEPT !.k.key = key], "CheckFlat"), key)
        hits == ScFind(cx.s, k.prov, k.name)
        cx2 == Stage(cx1, "CheckStructured")
    IN
    IF Truthy(cached) THEN AfterLocation(cx1, cached.v[1], cached.v[2])
    ELSE IF Len(hits) > 0 THEN AfterLocation(cx2, hits[1].repo_name, hits[1].path)
    ELSE IF ~IsMonorepo THEN Send(Stage([cx2 EXCEPT !.k.inres = TRUE], "Resolve"),
                                  Req("repo", k.ns, k.name, "", 0), "g_probe1")
    ELSE IF settings.monorepo_name # ""
         THEN CandLoop([cx2 EXCEPT !.k.cands = <<settings.monorepo_name>>, !.k.i = 1])
    ELSE Send(Stage(cx2, "Resolve"), Req("orgs_repos", GetOwner, "", "", 1), "r_orgs")

\* a resolver that leaves the discovery to the provider scan: without a record
\* and without a flat cache entry the coordinate is unresolved
ResolveBegin_LeavesToScan(cx) ==
    LET k == cx.k
        hits == ScFind(cx.s, k.prov, k.name)
        cx1 == Stage(cx, "CheckStructured")
    IN
    IF Len(hits) > 0 THEN AfterLocation(cx1, hits[1].repo_name, hits[1].path)
    ELSE
      LET key == LocationKey(k.ns, k.name, k.prov)
          cached == CacheGet(cx.c, key, now)
          cx2 == Lookup(Stage([cx1 EXCEPT !.k.key = key], "CheckFlat"), key)
      IN
      IF Truthy(cached) THEN AfterLocation(cx2, cached.v[1], cached.v[2])
      ELSE AfterLocation(cx2, NoneStr, NoneStr)

ResolveBegin(cx) ==
    LET k == cx.k
        hits == ScFind(cx.s, k.prov, k.name)
        cx1 == Stage(cx, "CheckStructured")
    IN
    IF Len(hits) > 0 THEN AfterLocation(cx1, hits[1].repo_name, hits[1].path)
    ELSE
      LET key == LocationKey(k.ns, k.name, k.prov)
          cached == CacheGet(cx.c, key, now)
          cx2 == Lookup(Stage([cx1 EXCEPT !.k.key = key], "CheckFlat"), key)
      IN
      IF Truthy(cached) THEN AfterLocation(cx2, cached.v[1], cached.v[2])
      ELSE IF ~IsMonorepo THEN ProbeBegin([cx2 EXCEPT !.k.inres = TRUE])
      ELSE IF settings.monorepo_name # ""
           THEN CandLoop([cx2 EXCEPT !.k.cands = <<settings.monorepo_name>>, !.k.i = 1])
      ELSE Send(Stage(cx2, "Resolve"), Req("orgs_repos", GetOwner, "", "", 1), "r_orgs")

\* lines 95-102: the candidates named in the listing, or the conventional name
WithCandidates(cx, resp) ==
    LET names == IF resp.status = 200
                 THEN [i \in 1..Len(resp.body) |-> resp.body[i].name] ELSE <<>>
        found == SelectSeq(names, LAMBDA r : IsProviderRepo(r, cx.k.prov))
        cands == IF Len(found) = 0
                 THEN <<"terraform-" \o cx.k.prov \o "-modules">> ELSE found
    IN CandLoop([cx EXCEPT !.k.cands = cands, !.k.i = 1])

ResolveOrgs(cx, resp) ==
    IF resp.status # 200
    THEN Send(cx, Req("users_repos", GetOwner, "", "", 1), "r_users")
    ELSE WithCandidates(cx, resp)

ResolveRepo(cx, resp) ==
    IF resp.status # 200 THEN NextCand(cx)
    ELSE LET branch == resp.body.default_branch IN
         Send([cx EXCEPT !.k.branch = branch],
              Req("tree", GetOwner, cx.k.req.repo, branch, 0), "r_tree")

ResolveTree(cx, resp) ==
    IF resp.status # 200 THEN NextCand(cx)
    ELSE
      LET tree == resp.body.tree
          repo == cx.k.req.repo
          file == FirstMatch([i \in 1..Len(tree) |-> FileRelPath(tree[i])], cx.k.name)
          dir == FirstMatch([i \in 1..Len(tree) |-> DirRelPath(tree[i])], cx.k.name)
      IN
      IF file # NoneStr
      THEN AfterLocation(Store(Stage(cx, "CacheAndReturn"), cx.k.key, PyTuple(repo, file)),
                         repo, file)
      ELSE IF dir # NoneStr
      THEN AfterLocation(Store(Stage(cx, "CacheAndReturn"), cx.k.key, PyTuple(repo, dir)),
                         repo, dir)
      ELSE NextCand(cx)

\* lines 624-627, 713-716: the resolver in a shared repository, the probe otherwise
LocateBegin(cx) == IF IsMonorepo THEN ResolveBegin(cx) ELSE ProbeBegin(cx)

\* a versions() that looks in the flat cache before the structured cache
VersionsBegin_FlatFirst(cx) ==
    LET k == cx.k
        hits == ScFind(cx.s, k.prov, k.name)
        full == SelectSeq(hits, LAMBDA m : Len(m.versions) > 0)
        vkey == VersionsKey(k.ns, k.name, k.prov)
        cached == CacheGet(cx.c, vkey, now)
        cx1 == Lookup(cx, vkey)
    IN
    IF Truthy(cached) THEN Finish(cx1, cached)
    ELSE IF Len(full) > 0 THEN Finish(cx1, PyVersions(full[1].versions))
    ELSE LocateBegin(cx1)

\* get_versions up to its first request: lines 574-596
VersionsBegin(cx) ==
    LET k == cx.k
        hits == ScFind(cx.s, k.prov, k.name)
        full == SelectSeq(hits, LAMBDA m : Len(m.versions) > 0)
    IN
    IF Len(full) > 0 THEN Finish(cx, PyVersions(full[1].versions))
    ELSE LET vkey == VersionsKey(k.ns, k.name, k.prov)
             cached == CacheGet(cx.c, vkey, now)
             cx1 == Lookup(cx, vkey)
         IN IF Truthy(cached) THEN Finish(cx1, cached)
            ELSE LocateBegin(cx1)

\* get_readme up to its first request: lines 748-780
ReadmeBegin(cx) ==
    LET k == cx.k
        hits == ScFind(cx.s, k.prov, k.name)
        raw_md == IF Len(hits) > 0 THEN hits[1].readme_content ELSE PyNone
    IN
    IF Truthy(raw_md) /\ ~StrTruthy(k.ver) THEN Finish(cx, PyHtml(raw_md.v))
    ELSE LET cached == CacheGet(cx.c, ReadmeKey(k), now)
             cx1 == Lookup(cx, ReadmeKey(k))
         IN IF Truthy(cached) THEN Finish(cx1, cached) ELSE LocateBegin(cx1)

\* get_examples up to its first request: lines 869-880
ExamplesBegin(cx) ==
    LET cached == CacheGet(cx.c, ExamplesKey(cx.k), now)
        cx1 == Lookup(cx, ExamplesKey(cx.k))
    IN IF Truthy(cached) THEN Finish(cx1, cached) ELSE LocateBegin(cx1)

\* get_repo_details up to its first request: lines 1031-1040
DetailsBegin(cx) ==
    LET cached == CacheGet(cx.c, DetailsKey(cx.k), now)
        cx1 == Lookup(cx, DetailsKey(cx.k))
    IN IF Truthy(cached) THEN Finish(cx1, cached) ELSE LocateBegin(cx1)

---------------------------------------------------------------------------
(* get_providers: lines 200-272 *)

MaxPage == 100

\* re.compile(r".*terraform-(.+)-modules$", re.IGNORECASE): group 1 lower-cased,
\* "" when the name does not match (the greedy .* takes the last "terraform-")
ProviderOf(rname) ==
    LET low == Lower(rname)
        at == {i \in 1..Len(low) :
                 /\ Mid(low, i, 10) = "terraform-"
                 /\ i + 10 <= Len(low) - 8}
    IN
    IF ~Contains(low, "terraform") \/ ~Contains(low, "modules") THEN ""
    ELSE IF at = {} \/ ~EndsWith(low, "-modules") THEN ""
    ELSE LET i == CHOOSE x \in at : \A y \in at : y <= x IN
         SubSeq(low, i + 10, Len(low) - 8)

\* providers[p].append(rname) over all_repos, in listing order: the providers
\* in the order of their first repository, each with its repositories
RECURSIVE GroupProviders(_, _)
GroupProviders(names, acc) ==
    LET left == SelectSeq(names, LAMBDA n : ProviderOf(n) # "" /\ ~DictHas(acc, ProviderOf(n))) IN
    IF Len(left) = 0 THEN acc
    ELSE LET p == ProviderOf(left[1]) IN
         GroupProviders(names,
            Append(acc, [k |-> p, v |-> SelectSeq(names, LAMBDA n : ProviderOf(n) = p)]))

ProviderList(names) ==
    LET d == GroupProviders(names, <<>>) IN
    [i \in 1..Len(d) |-> [name |-> d[i].k, repos |-> d[i].v]]

\* lines 214-221: the one provider of a configured shared repository
PinnedProvider(repo) ==
    LET parts == Split(repo, "-") IN
    IF Len(parts) >= 3 /\ parts[1] = "terraform" /\ parts[Len(parts)] = "modules"
    THEN parts[2] ELSE "aws"

---------------------------------------------------------------------------
(* get_modules_for_provider: lines 274-486, with get_repo_tags: lines 924-946 *)

\* line.strip()
IsSpace(c) == c = " " \/ c = "\t" \/ c = "\r"
RECURSIVE LStripWs(_)
LStripWs(s) == IF Len(s) > 0 /\ IsSpace(SubSeq(s, 1, 1)) THEN LStripWs(Drop(s, 1)) ELSE s
RECURSIVE RStripWs(_)
RStripWs(s) ==
    IF Len(s) > 0 /\ IsSpace(SubSeq(s, Len(s), Len(s)))
    THEN RStripWs(SubSeq(s, 1, Len(s) - 1)) ELSE s
StripWs(s) == RStripWs(LStripWs(s))

\* re.sub(r'<!--.*?-->', '', l)
RECURSIVE RemoveComments(_)
RemoveComments(l) ==
    LET open == {i \in 1..Len(l) : Mid(l, i, 4) = "<!--"} IN
    IF open = {} THEN l
    ELSE LET i == CHOOSE x \in open : \A y \in open : x <= y
             close == {j \in (i + 4)..Len(l) : Mid(l, j, 3) = "-->"}
         IN IF close = {} THEN l
            ELSE LET j == CHOOSE x \in close : \A y \in close : x <= y IN
                 SubSeq(l, 1, i - 1) \o RemoveComments(Drop(l, j + 2))

\* lines 433-448: the first line that is no blank, badge, heading or rule; "" if none
RECURSIVE FirstTextLine(_)
FirstTextLine(lines) ==
    IF Len(lines) = 0 THEN ""
    ELSE LET l == StripWs(RemoveComments(StripWs(Head(lines)))) IN
         IF l = "" \/ StartsWith(l, "[!") \/ StartsWith(l, "#") \/ StartsWith(l, "=")
         THEN FirstTextLine(Tail(lines))
         ELSE l

\* lines 338-346: the directories under modules/ that directly hold a .tf file
ModulePaths(tree) ==
    {DirName(tree[i].path) : i \in {x \in 1..Len(tree) :
        /\ StartsWith(tree[x].path, Prefix \o "/")
        /\ tree[x].type = "blob"
        /\ EndsWith(tree[x].path, ".tf")
        /\ DirName(tree[x].path) # ""}}

\* the orders a set may be iterated in
RECURSIVE Orders(_)
Orders(S) ==
    IF S = {} THEN {<<>>}
    ELSE UNION {{<<x>> \o o : o \in Orders(S \ {x})} : x \in S}

\* a loop that leaves out the examples directories only
SkippedPath_ExamplesOnly(mpath) ==
    LET parts == Split(mpath, "/") IN
    \/ LStrip(Drop(mpath, Len(Prefix)), "/") = ""
    \/ InSeq("examples", parts)

\* lines 350-355: a module path the loop skips
SkippedPath(mpath) ==
    LET parts == Split(mpath, "/") IN
    \/ LStrip(Drop(mpath, Len(Prefix)), "/") = ""
    \/ InSeq("examples", parts) \/ InSeq("fixtures", parts) \/ InSeq("tests", parts)

\* a record whose parent folder is the first component already for two components
ModuleRecord_ParentOfTwo(owner, prov, repo, branch, mpath, versions, readme) ==
    LET rel_name == LStrip(Drop(mpath, Len(Prefix)), "/")
        r_parts == Split(rel_name, "/")
        group_slug == r_parts[1]
        display_name == FlatName(rel_name)
        deep == Len(r_parts) >= 2
        parent_slug == IF deep THEN r_parts[Len(r_parts) - 1] ELSE "general"
        got == readme.py = "str"
        line == IF got THEN FirstTextLine(Split(readme.v, "\n")) ELSE ""
    IN
    [ namespace |-> owner,
      name |-> display_name,
      short_name |-> Replace(r_parts[Len(r_parts)], "-", "_"),
      group |-> Title(Replace(group_slug, "_", " ")),
      group_slug |-> group_slug,
      parent_dir |-> IF deep THEN Title(Replace(parent_slug, "_", " ")) ELSE "General",
      parent_slug |-> parent_slug,
      subfolder |-> IF Len(r_parts) >= 2 THEN r_parts[Len(r_parts) - 1] ELSE "root",
      provider |-> prov,
      repo_name |-> repo,
      path |-> rel_name,
      description |-> IF line # "" THEN line
                      ELSE "Module " \o display_name \o " (" \o prov \o ")",
      versions |-> versions,
      url |-> "https://github.com/" \o owner \o "/" \o repo \o "/tree/" \o branch
                 \o "/" \o mpath,
      readme_content |-> readme ]

\* lines 360-471: mod_data; readme is the response to the README request, or
\* PyNone without enrichment
ModuleRecord(owner, prov, repo, branch, mpath, versions, readme) ==
    LET rel_name == LStrip(Drop(mpath, Len(Prefix)), "/")
        r_parts == Split(rel_name, "/")
        group_slug == r_parts[1]
        display_name == FlatName(rel_name)
        deep == Len(r_parts) > 2
        parent_slug == IF deep THEN r_parts[2] ELSE "general"
        got == readme.py = "str"
        line == IF got THEN FirstTextLine(Split(readme.v, "\n")) ELSE ""
    IN
    [ namespace |-> owner,
      name |-> display_name,
      short_name |-> Replace(r_parts[Len(r_parts)], "-", "_"),
      group |-> Title(Replace(group_slug, "_", " ")),
      group_slug |-> group_slug,
      parent_dir |-> IF deep THEN Title(Replace(parent_slug, "_", " ")) ELSE "General",
      parent_slug |-> parent_slug,
      subfolder |-> IF Len(r_parts) >= 2 THEN r_parts[Len(r_parts) - 1] ELSE "root",
      provider |-> prov,
      repo_name |-> repo,
      path |-> rel_name,
      description |-> IF line # "" THEN line
                      ELSE "Module " \o display_name \o " (" \o prov \o ")",
      versions |-> versions,
      url |-> "https://github.com/" \o owner \o "/" \o repo \o "/tree/" \o branch
                 \o "/" \o mpath,
      readme_content |-> readme ]

\* a scan that files a record under the last component of its path
ScInsert_ByShortName(s, prov, rec) ==
    LET p == DictGet(s, prov)
        g0 == IF DictHas(p.groups, rec.group_slug) THEN DictGet(p.groups, rec.group_slug)
              ELSE [name |-> rec.group, parents |-> <<>>]
        pa0 == IF DictHas(g0.parents, rec.parent_slug) THEN DictGet(g0.parents, rec.parent_slug)
               ELSE [name |-> rec.parent_dir, modules |-> <<>>]
        pa1 == [pa0 EXCEPT !.modules = DictSet(@, rec.short_name, rec)]
        g1 == [g0 EXCEPT !.parents = DictSet(@, rec.parent_slug, pa1)]
    IN DictSet(s, prov, [p EXCEPT !.groups = DictSet(@, rec.group_slug, g1)])

\* a scan that keeps the versions of a record it finds under the name it writes
ScInsert_Merges(s, prov, rec) ==
    LET p == DictGet(s, prov)
        g0 == IF DictHas(p.groups, rec.group_slug) THEN DictGet(p.groups, rec.group_slug)
              ELSE [name |-> rec.group, parents |-> <<>>]
        pa0 == IF DictHas(g0.parents, rec.parent_slug) THEN DictGet(g0.parents, rec.parent_slug)
               ELSE [name |-> rec.parent_dir, modules |-> <<>>]
        merged == IF DictHas(pa0.modules, rec.name)
                  THEN [rec EXCEPT !.versions = DictGet(pa0.modules, rec.name).versions]
                  ELSE rec
        pa1 == [pa0 EXCEPT !.modules = DictSet(@, rec.name, merged)]
        g1 == [g0 EXCEPT !.parents = DictSet(@, rec.parent_slug, pa1)]
    IN DictSet(s, prov, [p EXCEPT !.groups = DictSet(@, rec.group_slug, g1)])

\* lines 476-484: the record goes in at [provider][group][parent][name]
ScInsert(s, prov, rec) ==
    LET p == DictGet(s, prov)
        g0 == IF DictHas(p.groups, rec.group_slug) THEN DictGet(p.groups, rec.group_slug)
              ELSE [name |-> rec.group, parents |-> <<>>]
        pa0 == IF DictHas(g0.parents, rec.parent_slug) THEN DictGet(g0.parents, rec.parent_slug)
               ELSE [name |-> rec.parent_dir, modules |-> <<>>]
        pa1 == [pa0 EXCEPT !.modules = DictSet(@, rec.name, rec)]
        g1 == [g0 EXCEPT !.parents = DictSet(@, rec.parent_slug, pa1)]
    IN DictSet(s, prov, [p EXCEPT !.groups = DictSet(@, rec.group_slug, g1)])

\* sorted(modules, key=lambda x: x["name"]): stable
RECURSIVE InsertByName(_, _)
InsertByName(x, sorted) ==
    IF Len(sorted) = 0 THEN <<x>>
    ELSE IF StrLess(x.name, Head(sorted).name) THEN <<x>> \o sorted
    ELSE <<Head(sorted)>> \o InsertByName(x, Tail(sorted))

RECURSIVE SortByName(_)
SortByName(ms) ==
    IF Len(ms) = 0 THEN <<>>
    ELSE InsertByName(ms[Len(ms)], SortByName(SubSeq(ms, 1, Len(ms) - 1)))

\* the coroutine raises
Raise(cx, what) == Finish(cx, [py |-> "raise", v |-> what])

\* warmup_cache after get_modules_for_provider returned or raised
RECURSIVE WarmupNext(_, _)

\* get_modules_for_provider returns value, or raises it, to its caller: the
\* request handler, or the loop of warmup_cache
ScanReturn(cx, value) ==
    IF cx.k.op = "warmup" THEN WarmupNext(cx, value) ELSE Finish(cx, value)

\* the record of the module at the head of todo is appended and stored
ScanStore(cx, readme) ==
    LET k == cx.k
        rec == ModuleRecord(GetOwner, k.prov, k.req.repo, k.branch, Head(k.todo),
                            k.versions, readme)
    IN
    IF ~DictHas(cx.s, k.prov) THEN ScanReturn(cx, [py |-> "raise", v |-> "KeyError"])
    ELSE [cx EXCEPT !.k.all_modules = Append(@, rec),
                    !.k.todo = Tail(@),
                    !.s = ScInsert(cx.s, k.prov, rec)]

\* for repo_name in target_repos, and at its end the sorted result
ScanLoop(cx) ==
    IF cx.k.j > Len(cx.k.repos)
    THEN ScanReturn(cx, PyList(SortByName(cx.k.all_modules)))
    ELSE Send(cx, Req("repo", GetOwner, cx.k.repos[cx.k.j], "", 0), "s_repo")

NextRepo(cx) == ScanLoop([cx EXCEPT !.k.j = @ + 1])

\* for mpath in module_paths, up to the next README request
RECURSIVE ScanModules(_)
ScanModules(cx) ==
    IF cx.k.pc = "done" THEN cx
    ELSE IF Len(cx.k.todo) = 0 THEN NextRepo(cx)
    ELSE IF SkippedPath(Head(cx.k.todo)) THEN ScanModules([cx EXCEPT !.k.todo = Tail(@)])
    ELSE IF cx.k.enrich
    THEN Send([cx EXCEPT !.k.req.arg = Head(cx.k.todo) \o "/README.md"],
              [cx.k.req EXCEPT !.ep = "contents", !.arg = Head(cx.k.todo) \o "/README.md"],
              "s_readme")
    ELSE ScanModules(ScanStore(cx, PyNone))

ScanReadme(cx, resp) ==
    ScanModules(ScanStore(cx, IF resp.status = 200 THEN PyStr(resp.body) ELSE PyNone))

ScanRepo(cx, resp) ==
    IF resp.status # 200 THEN NextRepo([cx EXCEPT !.k.failed = @ \cup {cx.k.req.repo}])
    ELSE LET branch == resp.body.default_branch IN
         Send([cx EXCEPT !.k.branch = branch],
              Req("tree", GetOwner, cx.k.req.repo, branch, 0), "s_tree")

\* versions are known: repo_version_map is filled and the modules follow
ScanWithVersions(cx, versions) ==
    ScanModules([cx EXCEPT !.k.versions = versions,
                           !.k.vmap = DictSet(@, cx.k.req.repo, versions)])

\* a scan without repo_version_map: the tags are looked up for every visit
ScanTree_NoVersionMap(cx, resp, order) ==
    IF resp.status # 200 THEN NextRepo([cx EXCEPT !.k.failed = @ \cup {cx.k.req.repo}])
    ELSE
      LET repo == cx.k.req.repo
          cx1 == [cx EXCEPT !.k.todo = order]
          cached == CacheGet(cx.c, TagsKey(repo), now)
          cx2 == Lookup(cx1, TagsKey(repo))
      IN IF Truthy(cached) THEN ScanWithVersions(cx2, cached.v)
         ELSE Send([cx2 EXCEPT !.k.tagged = Append(@, repo)],
                   Req("tags", GetOwner, repo, "", 0), "s_tags")

\* lines 323-332: the tree arrived; order is the iteration order of module_paths
ScanTree(cx, resp, order) ==
    IF resp.status # 200 THEN NextRepo([cx EXCEPT !.k.failed = @ \cup {cx.k.req.repo}])
    ELSE
      LET repo == cx.k.req.repo
          cx1 == [cx EXCEPT !.k.todo = order]
      IN
      IF DictHas(cx.k.vmap, repo) THEN ScanWithVersions(cx1, DictGet(cx.k.vmap, repo))
      ELSE LET cached == CacheGet(cx.c, TagsKey(repo), now)
               cx2 == Lookup(cx1, TagsKey(repo))
           IN IF Truthy(cached) THEN ScanWithVersions(cx2, cached.v)
              ELSE Send([cx2 EXCEPT !.k.tagged = Append(@, repo)],
                        Req("tags", GetOwner, repo, "", 0), "s_tags")

\* get_repo_tags after its request: lines 936-946
ScanTags(cx, resp) ==
    IF resp.status # 200 THEN ScanWithVersions(cx, <<>>)
    ELSE LET versions == VersionsOf(resp.body) IN
         ScanWithVersions(Store(cx, TagsKey(cx.k.req.repo), PyList(versions)), versions)

\* lines 293-310: the provider's repositories, its empty subtree, then the loop
ScanWithProviders(cx, plist) ==
    LET mine == SelectSeq(plist, LAMBDA p : p.name = cx.k.prov)
        target_repos == IF Len(mine) = 0 THEN <<>> ELSE mine[1].repos
    IN
    IF Len(target_repos) = 0 THEN ScanReturn(cx, PyList(<<>>))
    ELSE ScanLoop([cx EXCEPT
            !.s = IF DictHas(cx.s, cx.k.prov) THEN cx.s
                  ELSE DictSet(cx.s, cx.k.prov, [groups |-> <<>>]),
            !.k.repos = target_repos, !.k.j = 1])

\* what the caller of get_providers does with the list
AfterProviders(cx, plist) ==
    CASE cx.k.op = "scan" -> ScanWithProviders(cx, plist)
      [] cx.k.op = "warmup" /\ cx.k.sub = "scan" -> ScanWithProviders(cx, plist)
      [] cx.k.op = "warmup" /\ cx.k.sub = "providers" ->
            WarmupNext([cx EXCEPT !.k.plist = plist, !.k.pi = 0], PyList(plist))
      [] OTHER -> Finish(cx, PyList(plist))

\* lines 251-269: the listing is complete
ProvidersEnd(cx) ==
    LET result == ProviderList(cx.k.all_repos) IN
    AfterProviders(Store(cx, "providers", PyList(result)), result)

ProvidersBegin(cx) ==
    LET cached == CacheGet(cx.c, "providers", now)
        cx1 == Lookup(cx, "providers")
    IN
    IF Truthy(cached) THEN AfterProviders(cx1, cached.v)
    ELSE IF ~IsMonorepo THEN AfterProviders(cx1, <<>>)
    ELSE IF settings.monorepo_name # ""
    THEN LET result == << [name |-> PinnedProvider(settings.monorepo_name),
                           repos |-> <<settings.monorepo_name>>] >>
         IN AfterProviders(Store(cx1, "providers", PyList(result)), result)
    ELSE Send([cx1 EXCEPT !.k.page = 1, !.k.all_repos = <<>>],
              Req("orgs_repos", GetOwner, "", "", 1), "p_orgs")

\* a listing loop without the stop after page 100
ProvidersPage_NoCap(cx, resp) ==
    IF resp.status # 200 \/ Len(resp.body) = 0 THEN ProvidersEnd(cx)
    ELSE LET cx1 == [cx EXCEPT
                       !.k.all_repos = @ \o [i \in 1..Len(resp.body) |-> resp.body[i].name],
                       !.k.page = @ + 1]
         IN Send(cx1, Req("orgs_repos", GetOwner, "", "", cx1.k.page), "p_orgs")

\* lines 236-249: one page of the listing
ProvidersPage(cx, resp) ==
    IF resp.status # 200 \/ Len(resp.body) = 0 THEN ProvidersEnd(cx)
    ELSE LET cx1 == [cx EXCEPT
                       !.k.all_repos = @ \o [i \in 1..Len(resp.body) |-> resp.body[i].name],
                       !.k.page = @ + 1]
         IN IF cx1.k.page > MaxPage THEN ProvidersEnd(cx1)
            ELSE Send(cx1, Req("orgs_repos", GetOwner, "", "", cx1.k.page), "p_orgs")

ProvidersOrgs(cx, resp) ==
    IF resp.status # 200
    THEN Send(cx, Req("users_repos", GetOwner, "", "", cx.k.page), "p_users")
    ELSE ProvidersPage(cx, resp)

\* a scan that goes to the repositories whether or not the provider is cached
ScanBegin_Rescans(cx) == ProvidersBegin(cx)

\* lines 279-287: a provider that is in the structured cache is served from it
ScanBegin(cx) ==
    IF DictHas(cx.s, cx.k.prov)
    THEN ScanReturn(cx, PyList(SortByName(
            LET es == NodeEntries(DictGet(cx.s, cx.k.prov)) IN
            [i \in 1..Len(es) |-> es[i].v])))
    ELSE ProvidersBegin(cx)

---------------------------------------------------------------------------
(* verify_org_access and warmup_cache: lines 1056-1120 *)

\* lines 1119-1120: the exception is logged and the warmup ends
WarmupFailed(cx) == Finish([cx EXCEPT !.k.log = "failed"], PyNone)

\* lines 1112-1118: the next provider is scanned with enrich=True, or the
\* warmup is complete
WarmupNext(cx, value) ==
    IF value.py = "raise" THEN WarmupFailed(cx)
    ELSE IF cx.k.pi >= Len(cx.k.plist)
    THEN Finish([cx EXCEPT !.k.log = "completed"], PyNone)
    ELSE ScanBegin([cx EXCEPT
            !.k.pi = @ + 1, !.k.sub = "scan",
            !.k.prov = cx.k.plist[cx.k.pi + 1].name, !.k.enrich = TRUE,
            !.k.repos = <<>>, !.k.j = 0, !.k.todo = <<>>, !.k.versions = <<>>,
            !.k.vmap = <<>>, !.k.all_modules = <<>>,
            !.k.failed = {}, !.k.tagged = <<>>])

\* line 1108: verify_org_access returned
WarmupProviders(cx) ==
    ProvidersBegin([cx EXCEPT !.k.sub = "providers", !.k.access = TRUE])

\* lines 1060-1067
WarmupBegin(cx) ==
    IF GetOwner = "" THEN WarmupProviders(cx)
    ELSE Send([cx EXCEPT !.k.sub = "verify"], Req("org", GetOwner, "", "", 0), "w_org")

\* lines 1069-1084
WarmupOrg(cx, resp) ==
    IF resp.status = 200 THEN Send(cx, Req("rate_limit", "", "", "", 0), "w_rate")
    ELSE IF resp.status = 404 THEN Send(cx, Req("user", GetOwner, "", "", 0), "w_user")
    ELSE WarmupFailed(cx)

\* lines 1073-1078: whatever the rate limit request says, access is verified
WarmupRate(cx, resp) == WarmupProviders(cx)

\* lines 1083-1099
WarmupUser(cx, resp) ==
    IF resp.status = 200 THEN WarmupProviders(cx) ELSE WarmupFailed(cx)

---------------------------------------------------------------------------
(* Steps *)

Namespaces == {"acme"}
Names == {"net_vpc", "zz"}
\* with one repository per module, also a name whose repository follows the
\* terraform-{provider}-{name} convention only
\* in the umbrella account, the names of the directories of its legacy repository
NamesFor(st) ==
    IF st.monorepo_owner = "" /\ st.target_org = "" THEN Names \cup {"db"}
    ELSE IF st.target_org = "umbrella" THEN {"db", "x_y", "net_vpc_peering", ""}
    ELSE IF "hooli" \in {st.monorepo_owner, st.target_org} THEN {"net_vpc", "modules_y", "module_x"}
    ELSE Names
Providers == {"aws"}
\* with the shared repository of the hooli account configured, also a provider
\* the repository is not named after
ProvidersFor(st) ==
    IF st.monorepo_owner = "hooli" THEN Providers \cup {"gcp"} ELSE Providers
Versions == {"1.2.0", "V1.0", "1.0"}
\* version of a README lookup: None (the latest) or a released one
ReadmeVersions == {NoneStr, "1.2.0"}

Found(result) == result.py = "tuple" /\ StrTruthy(result.v[1])

NoHist == [found |-> <<>>, neg |-> <<>>, cleared |-> {}, warmclear |-> FALSE]

\* The history after a step that ends in context cx: the first found Location of a
\* coordinate and when it was returned, and when a shared-repository scan of a
\* coordinate last ended unresolved
HistAfter(cx) ==
    LET k == cx.k
        first == ~DictHas(hist.found, k.key) \/ now - DictGet(hist.found, k.key).at >= CacheTtl
    IN
    IF k.pc # "done" \/ k.op # "resolve" THEN hist
    ELSE IF Found(k.result)
    THEN [hist EXCEPT !.found = IF first THEN DictSet(@, k.key, [loc |-> k.result, at |-> now])
                                 ELSE @]
    ELSE IF IsMonorepo /\ k.calls > 0 THEN [hist EXCEPT !.neg = DictSet(@, k.key, now)]
    ELSE hist

\* The records the structured cache s holds for (prov, name), in any group and
\* under any parent
Records(s, prov, name) ==
    {r \in UNION { UNION { UNION { {s[p].v.groups[g].v.parents[pa].v.modules[m] :
                                       m \in 1..Len(s[p].v.groups[g].v.parents[pa].v.modules)}
                                  : pa \in 1..Len(s[p].v.groups[g].v.parents) }
                          : g \in 1..Len(s[p].v.groups) }
                  : p \in {q \in 1..Len(s) : s[q].k = prov} }
        : r.k = name}

HasRecord(s, prov, name) == Records(s, prov, name) # {}

\* What a resolution of (ns, name, prov) that starts now finds in the caches, and
\* what the history says about the coordinate
Observed(k) ==
    LET key == LocationKey(k.ns, k.name, k.prov) IN
    [k EXCEPT
       !.key = key,
       !.pre = [sc |-> HasRecord(structured_cache, k.prov, k.name),
                vers |-> {r.v.versions : r \in
                            {x \in Records(structured_cache, k.prov, k.name) :
                                x.v.versions # <<>>}},
                flat |-> IF key \in DOMAIN cache THEN cache[key].data ELSE PyNone,
                age |-> IF key \in DOMAIN cache THEN now - cache[key].timestamp ELSE 0],
       !.expect = IF DictHas(hist.found, key) /\ now - DictGet(hist.found, key).at < CacheTtl
                  THEN DictGet(hist.found, key).loc ELSE PyNone,
       !.negwin = DictHas(hist.neg, key) /\ now - DictGet(hist.neg, key) < CacheTtl,
       !.afterclear = key \in hist.cleared]

\* a step of task t ends in context cx
Apply(t, cx) ==
    /\ cache' = cx.c
    /\ structured_cache' = cx.s
    /\ tasks' = [tasks EXCEPT ![t] = IF cx.k.pc = "done" THEN IdleTask ELSE cx.k]
    /\ ev' = IF cx.k.pc = "done" THEN [cx.e EXCEPT !.fin = cx.k] ELSE cx.e
    /\ hist' = [HistAfter(cx) EXCEPT
                   !.cleared = IF tasks[t].op = "idle" /\ cx.k.op = "resolve"
                               THEN @ \ {cx.k.key} ELSE @]
    /\ UNCHANGED <<settings, upstream, now, AUTH_CODES, auth>>

\* a request arrives and its coroutine takes the free slot t
Begin(t) ==
    /\ tasks[t].op = "idle"
    /\ t <= slots
    /\ started < MaxStarts
    /\ started' = started + 1
    /\ UNCHANGED <<fails, slots>>

NewTask(op, ns, name, prov) ==
    [IdleTask EXCEPT !.op = op, !.pc = "start", !.ns = ns, !.name = name, !.prov = prov]

\* the response to the pending request of task t arrives and handler runs
OnResponse(t, pc, handler(_, _)) ==
    /\ tasks[t].pc = pc
    /\ UNCHANGED <<started, slots>>
    /\ \E resp \in Answers(tasks[t].req) :
         /\ fails' = IF resp.injected THEN fails + 1 ELSE fails
         /\ Apply(t, handler(Cx(t), resp))

\* get_download_url, get_module_path: the location of a coordinate
StartResolve(t) ==
    /\ Begin(t)
    /\ \E ns \in Namespaces, name \in NamesFor(settings), prov \in ProvidersFor(settings) :
         Apply(t, LocateBegin([Cx(t) EXCEPT
                    !.k = Observed(NewTask("resolve", ns, name, prov))]))

StartVersions(t) ==
    /\ Begin(t)
    /\ \E ns \in Namespaces, name \in NamesFor(settings), prov \in ProvidersFor(settings) :
         Apply(t, VersionsBegin([Cx(t) EXCEPT
                    !.k = Observed(NewTask("versions", ns, name, prov))]))

StartZip(t) ==
    /\ Begin(t)
    /\ \E ns \in Namespaces, name \in NamesFor(settings), prov \in ProvidersFor(settings), ver \in Versions :
         Apply(t, LocateBegin([Cx(t) EXCEPT
                    !.k = [Observed(NewTask("zip", ns, name, prov)) EXCEPT !.ver = ver]]))

\* get_readme(namespace, name, provider, version)
StartReadme(t) ==
    /\ Begin(t)
    /\ \E ns \in Namespaces, name \in NamesFor(settings), prov \in ProvidersFor(settings), ver \in ReadmeVersions :
         Apply(t, ReadmeBegin([Cx(t) EXCEPT
                    !.k = [Observed(NewTask("readme", ns, name, prov)) EXCEPT !.ver = ver]]))

\* get_examples(namespace, name, provider): version is None
StartExamples(t) ==
    /\ Begin(t)
    /\ \E ns \in Namespaces, name \in NamesFor(settings), prov \in ProvidersFor(settings) :
         Apply(t, ExamplesBegin([Cx(t) EXCEPT
                    !.k = [Observed(NewTask("examples", ns, name, prov)) EXCEPT !.ver = NoneStr]]))

\* get_repo_details(namespace, name, provider)
StartDetails(t) ==
    /\ Begin(t)
    /\ \E ns \in Namespaces, name \in NamesFor(settings), prov \in ProvidersFor(settings) :
         Apply(t, DetailsBegin([Cx(t) EXCEPT
                    !.k = Observed(NewTask("details", ns, name, prov))]))

\* get_providers()
StartProviders(t) ==
    /\ Begin(t)
    /\ Apply(t, ProvidersBegin([Cx(t) EXCEPT !.k = NewTask("providers", "", "", "")]))

ReadmeFirstResp(t) == OnResponse(t, "m_first", ReadmeFirst)
ReadmeDirResp(t) == OnResponse(t, "m_dir", ReadmeDir)
ReadmeFileResp(t) == OnResponse(t, "m_file", ReadmeFile)
ReadmeRootResp(t) == OnResponse(t, "m_root", ReadmeFile)
ExamplesDirResp(t) == OnResponse(t, "e_dir", ExamplesDir)
DetailsRepoResp(t) == OnResponse(t, "d_repo", DetailsRepo)

VersionsTagsResp(t) == OnResponse(t, "v_tags", VersionsTags)
ZipFirstResp(t) == OnResponse(t, "z_first", ZipFirst)
ZipSecondResp(t) == OnResponse(t, "z_second", ZipSecond)

\* get_modules_for_provider(provider, enrich=False)
StartScan(t) ==
    /\ Begin(t)
    /\ \E prov \in ProvidersFor(settings) :
         Apply(t, ScanBegin([Cx(t) EXCEPT !.k = NewTask("scan", "", "", prov)]))

\* get_modules_for_provider(provider, enrich=True)
StartScanEnriched(t) ==
    /\ Begin(t)
    /\ \E prov \in ProvidersFor(settings) :
         Apply(t, ScanBegin([Cx(t) EXCEPT
                    !.k = [NewTask("scan", "", "", prov) EXCEPT !.enrich = TRUE]]))

ProvidersOrgsResp(t) == OnResponse(t, "p_orgs", ProvidersOrgs)
ProvidersUsersResp(t) == OnResponse(t, "p_users", ProvidersPage)
ScanRepoResp(t) == OnResponse(t, "s_repo", ScanRepo)
ScanTagsResp(t) == OnResponse(t, "s_tags", ScanTags)
ScanReadmeResp(t) == OnResponse(t, "s_readme", ScanReadme)

ScanTreeResp(t) ==
    /\ tasks[t].pc = "s_tree"
    /\ UNCHANGED <<started, slots>>
    /\ \E resp \in Answers(tasks[t].req) :
         /\ fails' = IF resp.injected THEN fails + 1 ELSE fails
         /\ \E order \in (IF resp.status = 200 THEN Orders(ModulePaths(resp.body.tree))
                          ELSE {<<>>}) :
               Apply(t, ScanTree(Cx(t), resp, order))

\* startup_event: the warmup coroutine, created at process start, begins to run
WarmupStart(t) ==
    /\ tasks[t].op = "warmup" /\ tasks[t].pc = "start"
    /\ UNCHANGED <<started, fails, slots>>
    /\ Apply(t, WarmupBegin(Cx(t)))

WarmupOrgResp(t) == OnResponse(t, "w_org", WarmupOrg)
WarmupRateResp(t) == OnResponse(t, "w_rate", WarmupRate)
WarmupUserResp(t) == OnResponse(t, "w_user", WarmupUser)

\* await client.get(...) raises (connect error, timeout): the exception leaves
\* the coroutine, except in warmup_cache, which catches it (lines 1119-1120)
TransportError(t) ==
    /\ tasks[t].req # NoReq
    /\ fails < MaxFails
    /\ fails' = fails + 1
    /\ UNCHANGED <<started, slots>>
    /\ Apply(t, IF tasks[t].op = "warmup" THEN WarmupFailed(Cx(t))
                ELSE Raise(Cx(t), "TransportError"))

ResolveOrgsResp(t) == OnResponse(t, "r_orgs", ResolveOrgs)
ResolveUsersResp(t) == OnResponse(t, "r_users", WithCandidates)
ResolveRepoResp(t) == OnResponse(t, "r_repo", ResolveRepo)
ResolveTreeResp(t) == OnResponse(t, "r_tree", ResolveTree)
ProbeDirectResp(t) == OnResponse(t, "g_probe1", ProbeDirect)
ProbeConventionResp(t) == OnResponse(t, "g_probe2", ProbeConvention)

\* The coordinates a resolution would be answered for from a cache
CachedKeys ==
    {LocationKey(ns, name, prov) : <<ns, name, prov>> \in
        {c \in Namespaces \X NamesFor(settings) \X ProvidersFor(settings) :
            \/ HasRecord(structured_cache, c[3], c[2])
            \/ LET key == LocationKey(c[1], c[2], c[3]) IN
               key \in DOMAIN cache /\ now - cache[key].timestamp < CacheTtl}}

\* a clear that resets the flat cache only
ClearCache_KeepsStructured ==
    /\ cache' = EmptyCache
    /\ structured_cache' = structured_cache
    /\ ev' = [NoEv EXCEPT !.cleared = TRUE]
    /\ hist' = [hist EXCEPT !.found = <<>>, !.cleared = CachedKeys,
                            !.warmclear = @ \/ \E t \in Tasks : tasks[t].op = "warmup"]
    /\ UNCHANGED <<settings, upstream, now, tasks, fails, started, slots, AUTH_CODES, auth>>

\* clear_cache: lines 42-45
ClearCache ==
    /\ cache' = EmptyCache
    /\ structured_cache' = <<>>
    /\ ev' = [NoEv EXCEPT !.cleared = TRUE]
    /\ hist' = [hist EXCEPT !.found = <<>>, !.cleared = CachedKeys,
                            !.warmclear = @ \/ \E t \in Tasks : tasks[t].op = "warmup"]
    /\ UNCHANGED <<settings, upstream, now, tasks, fails, started, slots, AUTH_CODES, auth>>

\* time.time() moves on between two steps
Tick ==
    /\ now < (MaxTicks + 1 - slots) * TickStep
    /\ now' = now + TickStep
    /\ ev' = NoEv
    /\ UNCHANGED <<settings, upstream, cache, structured_cache, tasks, fails, started, slots, hist,
                   AUTH_CODES, auth>>

---------------------------------------------------------------------------
(* app/api/auth.py: the login protocol of the Terraform CLI *)

MaxCodes == 2      \* authorization codes issued
MaxTokens == 3     \* token requests made
MaxAuthTicks == 3  \* time steps of the login clock
AuthStep == 150    \* seconds in one such step

\* lines 92-93: the lifetime of a code, in seconds
CodeTtl == 300

\* settings.effective_api_key: the key the server was configured with, "" when
\* it has none ("no AUTH_API_KEY or API_TOKEN configured")
EffectiveApiKey == settings.auth_api_key

KeyedSettings == [MakeSettings("acme", "", "") EXCEPT !.auth_api_key = "s3cret"]

\* str(uuid.uuid4()): a value no earlier call returned
Codes == {"code-1", "code-2"}

\* what a client may send as code: an issued value or any other string
SentCodes == Codes \cup {"guess"}
GrantTypes == {"authorization_code", "refresh_token"}
RedirectUris == {"http://localhost:10009/login", NoneStr}

\* del d[k]
DictDel(d, k) == SelectSeq(d, LAMBDA e : e.k # k)

NoForm == [grant_type |-> "", code |-> ""]

\* form: the token requests that wait for their form, by slot; issued, granted
\* and tokens record what happened; resp is the last response sent, and when
NoAuth ==
    [ form |-> [t \in Tasks |-> NoForm],
      issued |-> <<>>, granted |-> <<>>, tokens |-> 0,
      resp |-> [ep |-> "", status |-> 0, grant_type |-> "", code |-> "", body |-> <<>>,
                at |-> 0] ]

JSONResponse(ep, status, form, body) ==
    [ep |-> ep, status |-> status, grant_type |-> form.grant_type, code |-> form.code,
     body |-> body, at |-> now]

\* a token endpoint that leaves an exchanged code in place
TokenReply_KeepsCode(codes, form, t) ==
    IF form.grant_type # "authorization_code"
    THEN [codes |-> codes, status |-> 400, body |-> [error |-> "unsupported_grant_type"]]
    ELSE IF ~DictHas(codes, form.code)
    THEN [codes |-> codes, status |-> 400, body |-> [error |-> "invalid_grant"]]
    ELSE IF t - DictGet(codes, form.code).ts > CodeTtl
    THEN [codes |-> DictDel(codes, form.code), status |-> 400,
          body |-> [error |-> "expired_grant"]]
    ELSE [codes |-> codes, status |-> 200,
          body |-> [access_token |-> EffectiveApiKey, token_type |-> "Bearer"]]

\* token, lines 81-102: what the endpoint answers to form at time t, and the
\* codes it leaves
TokenReply(codes, form, t) ==
    IF form.grant_type # "authorization_code"
    THEN [codes |-> codes, status |-> 400, body |-> [error |-> "unsupported_grant_type"]]
    ELSE IF ~DictHas(codes, form.code)
    THEN [codes |-> codes, status |-> 400, body |-> [error |-> "invalid_grant"]]
    ELSE IF t - DictGet(codes, form.code).ts > CodeTtl
    THEN [codes |-> DictDel(codes, form.code), status |-> 400,
          body |-> [error |-> "expired_grant"]]
    ELSE [codes |-> DictDel(codes, form.code), status |-> 200,
          body |-> [access_token |-> EffectiveApiKey, token_type |-> "Bearer"]]

AuthFrame ==
    UNCHANGED <<settings, upstream, cache, structured_cache, tasks, fails, started, slots,
                ev, hist>>

\* GET /v1/login/authorize, lines 30-68.  Without a redirect_uri the handler
\* raises at line 61, after the code was stored
Authorize ==
    /\ Len(auth.issued) < MaxCodes
    /\ AuthFrame /\ UNCHANGED now
    /\ IF EffectiveApiKey = ""
       THEN /\ AUTH_CODES' = AUTH_CODES
            /\ auth' = [auth EXCEPT !.resp = JSONResponse("authorize", 500, NoForm, <<>>)]
       ELSE \E api_code \in Codes \ {auth.issued[i].code : i \in 1..Len(auth.issued)},
               redirect_uri \in RedirectUris :
            /\ AUTH_CODES' = DictSet(AUTH_CODES, api_code,
                                [ts |-> now, redirect_uri |-> redirect_uri])
            /\ auth' = [auth EXCEPT
                  !.issued = Append(@, [code |-> api_code, ts |-> now]),
                  !.resp = IF redirect_uri = NoneStr
                           THEN JSONResponse("authorize", 500, NoForm, <<>>)
                           ELSE JSONResponse("authorize", 200, [NoForm EXCEPT !.code = api_code],
                                             [api_token |-> EffectiveApiKey])]

\* POST /v1/login/token up to line 76: the request arrives and waits for its form
TokenStart(t) ==
    /\ auth.form[t] = NoForm
    /\ auth.tokens < MaxTokens
    /\ AuthFrame /\ UNCHANGED <<now, AUTH_CODES>>
    /\ \E grant_type \in GrantTypes, code \in SentCodes :
         auth' = [auth EXCEPT !.form[t] = [grant_type |-> grant_type, code |-> code],
                              !.tokens = @ + 1]

\* lines 77-102: the form is there and the request is answered
TokenExchange(t) ==
    /\ auth.form[t] # NoForm
    /\ AuthFrame /\ UNCHANGED now
    /\ LET reply == TokenReply(AUTH_CODES, auth.form[t], now) IN
       /\ AUTH_CODES' = reply.codes
       /\ auth' = [auth EXCEPT
             !.form[t] = NoForm,
             !.granted = IF reply.status = 200
                         THEN Append(@, [code |-> auth.form[t].code, at |-> now]) ELSE @,
             !.resp = JSONResponse("token", reply.status, auth.form[t], reply.body)]

\* time.time() moves on between two steps of the login protocol
AuthTick ==
    /\ now < MaxAuthTicks * AuthStep
    /\ now' = now + AuthStep
    /\ AuthFrame /\ UNCHANGED <<AUTH_CODES, auth>>

\* Discovery of the account's repositories is explored one coroutine at a time,
\* the pinned shared repository with MaxTasks coroutines in flight
SlotsFor(st) == IF st.target_org # "" THEN 1 ELSE MaxTasks

InitWith(S) ==
    /\ settings \in S
    /\ upstream = WorldFor(settings)
    /\ now = 0
    /\ cache = EmptyCache
    /\ structured_cache = <<>>
    /\ tasks = [t \in Tasks |-> IdleTask]
    /\ fails = 0
    /\ started = 0
    /\ ev = NoEv
    /\ hist = NoHist
    /\ AUTH_CODES = <<>>
    /\ auth = NoAuth

\* The resolver in its two shared-repository configurations
Init ==
    /\ InitWith({DiscoverySettings, PinnedSettings})
    /\ slots = SlotsFor(settings)

Next ==
    \/ \E t \in Tasks : StartResolve(t)
    \/ \E t \in Tasks : ResolveOrgsResp(t)
    \/ \E t \in Tasks : ResolveUsersResp(t)
    \/ \E t \in Tasks : ResolveRepoResp(t)
    \/ \E t \in Tasks : ResolveTreeResp(t)
    \/ \E t \in Tasks : StartScan(t)
    \/ \E t \in Tasks : ProvidersOrgsResp(t)
    \/ \E t \in Tasks : ProvidersUsersResp(t)
    \/ \E t \in Tasks : ScanRepoResp(t)
    \/ \E t \in Tasks : ScanTreeResp(t)
    \/ \E t \in Tasks : ScanTagsResp(t)
    \/ ClearCache
    \/ Tick

Spec == Init /\ [][Next]_vars

\* The public operations on a coordinate, one at a time, in all three configurations
InitOps ==
    /\ InitWith({DiscoverySettings, PinnedSettings, MultiSettings})
    /\ slots = 1

NextOps ==
    \/ \E t \in Tasks : StartResolve(t)
    \/ \E t \in Tasks : StartVersions(t)
    \/ \E t \in Tasks : StartZip(t)
    \/ \E t \in Tasks : ResolveOrgsResp(t)
    \/ \E t \in Tasks : ResolveUsersResp(t)
    \/ \E t \in Tasks : ResolveRepoResp(t)
    \/ \E t \in Tasks : ResolveTreeResp(t)
    \/ \E t \in Tasks : ProbeDirectResp(t)
    \/ \E t \in Tasks : ProbeConventionResp(t)
    \/ \E t \in Tasks : VersionsTagsResp(t)
    \/ \E t \in Tasks : ZipFirstResp(t)
    \/ \E t \in Tasks : ZipSecondResp(t)
    \/ \E t \in Tasks : StartScan(t)
    \/ \E t \in Tasks : StartScanEnriched(t)
    \/ \E t \in Tasks : ProvidersOrgsResp(t)
    \/ \E t \in Tasks : ProvidersUsersResp(t)
    \/ \E t \in Tasks : ScanRepoResp(t)
    \/ \E t \in Tasks : ScanTreeResp(t)
    \/ \E t \in Tasks : ScanTagsResp(t)
    \/ \E t \in Tasks : ScanReadmeResp(t)
    \/ ClearCache

SpecOps == InitOps /\ [][NextOps]_vars

\* The provider scan over two directories that flatten to one name, with
\* MaxTasks coroutines in flight, in both shared-repository configurations
InitScan ==
    /\ InitWith({GlobexSettings, GlobexPinned})
    /\ slots = MaxTasks

NextScan ==
    \/ \E t \in Tasks : StartScan(t)
    \/ \E t \in Tasks : StartScanEnriched(t)
    \/ \E t \in Tasks : ProvidersOrgsResp(t)
    \/ \E t \in Tasks : ProvidersUsersResp(t)
    \/ \E t \in Tasks : ScanRepoResp(t)
    \/ \E t \in Tasks : ScanTreeResp(t)
    \/ \E t \in Tasks : ScanTagsResp(t)
    \/ \E t \in Tasks : ScanReadmeResp(t)
    \/ ClearCache

SpecScan == InitScan /\ [][NextScan]_vars

\* The resolver and the provider scan over the trees of the umbrella account,
\* one coroutine at a time
InitPaths ==
    /\ InitWith({UmbrellaSettings})
    /\ slots = 1

NextPaths ==
    \/ \E t \in Tasks : StartResolve(t)
    \/ \E t \in Tasks : ResolveOrgsResp(t)
    \/ \E t \in Tasks : ResolveUsersResp(t)
    \/ \E t \in Tasks : ResolveRepoResp(t)
    \/ \E t \in Tasks : ResolveTreeResp(t)
    \/ \E t \in Tasks : StartScan(t)
    \/ \E t \in Tasks : ProvidersOrgsResp(t)
    \/ \E t \in Tasks : ProvidersUsersResp(t)
    \/ \E t \in Tasks : ScanRepoResp(t)
    \/ \E t \in Tasks : ScanTreeResp(t)
    \/ \E t \in Tasks : ScanTagsResp(t)
    \/ ClearCache

SpecPaths == InitPaths /\ [][NextPaths]_vars

\* The resolver and the provider scan over the hooli account, discovered or
\* with its shared repository configured, one coroutine at a time
InitNames ==
    /\ InitWith({HooliSettings, HooliPinned})
    /\ slots = 1

NextNames ==
    \/ \E t \in Tasks : StartResolve(t)
    \/ \E t \in Tasks : ResolveOrgsResp(t)
    \/ \E t \in Tasks : ResolveUsersResp(t)
    \/ \E t \in Tasks : ResolveRepoResp(t)
    \/ \E t \in Tasks : ResolveTreeResp(t)
    \/ \E t \in Tasks : StartScan(t)
    \/ \E t \in Tasks : ProvidersOrgsResp(t)
    \/ \E t \in Tasks : ProvidersUsersResp(t)
    \/ \E t \in Tasks : ScanRepoResp(t)
    \/ \E t \in Tasks : ScanTreeResp(t)
    \/ \E t \in Tasks : ScanTagsResp(t)
    \/ ClearCache

SpecNames == InitNames /\ [][NextNames]_vars

\* Provider discovery over a listing of two pages and over a listing that
\* never ends, one coroutine at a time
InitListing ==
    /\ InitWith({UmbrellaSettings, PiedSettings})
    /\ slots = 1

NextListing ==
    \/ \E t \in Tasks : StartProviders(t)
    \/ \E t \in Tasks : ProvidersOrgsResp(t)
    \/ \E t \in Tasks : ProvidersUsersResp(t)
    \/ ClearCache

SpecListing == InitListing /\ [][NextListing]_vars

\* The login protocol, with and without a configured key
InitAuth ==
    /\ InitWith({KeyedSettings, DiscoverySettings})
    /\ slots = MaxTasks

NextAuth ==
    \/ Authorize
    \/ \E t \in Tasks : TokenStart(t)
    \/ \E t \in Tasks : TokenExchange(t)
    \/ AuthTick

SpecAuth == InitAuth /\ [][NextAuth]_vars

\* Process start: the warmup coroutine exists and requests arrive while it runs
InitWarm ==
    /\ settings \in {InitechSettings, PinnedSettings}
    /\ upstream = WorldFor(settings)
    /\ now = 0
    /\ cache = EmptyCache
    /\ structured_cache = <<>>
    /\ tasks = [t \in Tasks |-> IF t = 1 THEN NewTask("warmup", "", "", "") ELSE IdleTask]
    /\ fails = 0
    /\ started = 0
    /\ ev = NoEv
    /\ hist = NoHist
    /\ AUTH_CODES = <<>>
    /\ auth = NoAuth
    /\ slots = MaxTasks

NextWarm ==
    \/ \E t \in Tasks : WarmupStart(t)
    \/ \E t \in Tasks : WarmupOrgResp(t)
    \/ \E t \in Tasks : WarmupRateResp(t)
    \/ \E t \in Tasks : WarmupUserResp(t)
    \/ \E t \in Tasks : ProvidersOrgsResp(t)
    \/ \E t \in Tasks : ProvidersUsersResp(t)
    \/ \E t \in Tasks : ScanRepoResp(t)
    \/ \E t \in Tasks : ScanTreeResp(t)
    \/ \E t \in Tasks : ScanTagsResp(t)
    \/ \E t \in Tasks : ScanReadmeResp(t)
    \/ \E t \in Tasks : StartResolve(t)
    \/ \E t \in Tasks : ResolveOrgsResp(t)
    \/ \E t \in Tasks : ResolveUsersResp(t)
    \/ \E t \in Tasks : ResolveRepoResp(t)
    \/ \E t \in Tasks : ResolveTreeResp(t)
    \/ \E t \in Tasks : TransportError(t)
    \/ ClearCache

SpecWarm == InitWarm /\ [][NextWarm]_vars

\* Every lookup of the service next to the provider scan and clear_cache, one
\* coroutine at a time, in either pinned shared repository and with one
\* repository per module
InitFrame ==
    /\ InitWith({PinnedSettings, PinnedInfra, MultiSettings})
    /\ slots = 1

NextFrame ==
    \/ \E t \in Tasks : StartResolve(t)
    \/ \E t \in Tasks : StartVersions(t)
    \/ \E t \in Tasks : StartZip(t)
    \/ \E t \in Tasks : StartReadme(t)
    \/ \E t \in Tasks : StartExamples(t)
    \/ \E t \in Tasks : StartDetails(t)
    \/ \E t \in Tasks : StartProviders(t)
    \/ \E t \in Tasks : StartScan(t)
    \/ \E t \in Tasks : StartScanEnriched(t)
    \/ \E t \in Tasks : ResolveRepoResp(t)
    \/ \E t \in Tasks : ResolveTreeResp(t)
    \/ \E t \in Tasks : ProbeDirectResp(t)
    \/ \E t \in Tasks : ProbeConventionResp(t)
    \/ \E t \in Tasks : VersionsTagsResp(t)
    \/ \E t \in Tasks : ZipFirstResp(t)
    \/ \E t \in Tasks : ZipSecondResp(t)
    \/ \E t \in Tasks : ReadmeFirstResp(t)
    \/ \E t \in Tasks : ReadmeDirResp(t)
    \/ \E t \in Tasks : ReadmeFileResp(t)
    \/ \E t \in Tasks : ReadmeRootResp(t)
    \/ \E t \in Tasks : ExamplesDirResp(t)
    \/ \E t \in Tasks : DetailsRepoResp(t)
    \/ \E t \in Tasks : ScanRepoResp(t)
    \/ \E t \in Tasks : ScanTreeResp(t)
    \/ \E t \in Tasks : ScanTagsResp(t)
    \/ \E t \in Tasks : ScanReadmeResp(t)
    \/ ClearCache

SpecFrame == InitFrame /\ [][NextFrame]_vars

---------------------------------------------------------------------------
(* Properties *)

\* The coroutine that returned in this step
fin == ev.fin

\* C1: a resolution of a coordinate that starts within the TTL window of a
\* resolution of it that returned a found Location, with no clear_cache in
\* between, returns the identical (repository, relative path) and issues no
\* remote request.  Stated for the runs in which no upstream request fails.
C1_CacheHit ==
    (fails = 0 /\ fin.op = "resolve" /\ fin.expect # PyNone)
        => (fin.result = fin.expect /\ fin.calls = 0)

Unresolved == PyTuple(NoneStr, NoneStr)

\* C2 as stated: once a shared-repository resolution ended unresolved, the flat
\* cache holds the negative result, and every resolution of the coordinate that
\* starts within the TTL of it returns unresolved without any remote request.
\* Stated for the runs in which no upstream request fails.
C2_NegativeCaching ==
    /\ (fin.op = "resolve" /\ IsMonorepo /\ fin.calls > 0 /\ fin.result = Unresolved)
          => (fin.key \in DOMAIN cache /\ cache[fin.key].data = Unresolved)
    /\ (fails = 0 /\ fin.op = "resolve" /\ fin.negwin)
          => (fin.result = Unresolved /\ fin.calls = 0)

\* C2 amended: a shared-repository resolution that ends unresolved stores the
\* negative result with the time of the store; a resolution that starts while
\* that entry is in the flat cache and younger than the TTL, and the structured
\* cache has no record of the name, returns unresolved without any remote
\* request; one that starts when the entry has reached the TTL goes remote.
C2_NegativeWhileStored ==
    /\ (fin.op = "resolve" /\ IsMonorepo /\ fin.calls > 0 /\ fin.result = Unresolved)
          => (fin.key \in DOMAIN cache
              /\ cache[fin.key] = [data |-> Unresolved, timestamp |-> now])
    /\ (fin.op = "resolve" /\ ~fin.pre.sc /\ fin.pre.flat = Unresolved)
          => IF fin.pre.age < 3600
             THEN fin.result = Unresolved /\ fin.calls = 0
             ELSE fin.calls > 0

C2_Witness ==
    /\ fin.op = "resolve" /\ ~fin.pre.sc /\ fin.pre.flat = Unresolved
    /\ fin.pre.age > 0 /\ fin.pre.age < 3600
    /\ fin.result = Unresolved /\ fin.calls = 0

\* C3 as stated: after clear_cache both caches are empty, and the next resolution
\* of a coordinate that was cached before the clear makes a remote call.
\* Stated for the runs in which no upstream request fails.
C3_ClearCache ==
    /\ ev.cleared => (DOMAIN cache = {} /\ structured_cache = <<>>)
    /\ (fails = 0 /\ fin.op = "resolve" /\ fin.afterclear) => fin.calls > 0

\* C3 amended: after clear_cache both caches are empty, and the next resolution
\* of a coordinate that was cached before the clear makes a remote call if it
\* starts before any other operation has stored the coordinate again.
C3_ClearThenFresh ==
    /\ ev.cleared => (DOMAIN cache = {} /\ structured_cache = <<>>)
    /\ (fin.op = "resolve" /\ fin.afterclear /\ ~fin.pre.sc /\ fin.pre.flat = PyNone)
          => fin.calls > 0

C3_Witness ==
    /\ fin.op = "resolve" /\ fin.afterclear /\ ~fin.pre.sc /\ fin.pre.flat = PyNone
    /\ fin.calls > 0 /\ Found(fin.result)

\* What one step does to the flat cache
C4_Step ==
    /\ \A k \in DOMAIN cache :
          /\ k \notin DOMAIN cache'
                => \/ ev'.cleared
                   \/ k \in ev'.looked /\ now - cache[k].timestamp >= 3600
          /\ (k \in DOMAIN cache' /\ cache'[k] # cache[k])
                => cache'[k].timestamp = now
          /\ (k \in ev'.looked /\ now - cache[k].timestamp > 3600)
                => (k \notin DOMAIN cache' \/ cache'[k].timestamp = now)
    /\ (ev'.fin.op = "resolve" /\ ~ev'.fin.pre.sc /\ ev'.fin.pre.flat # PyNone)
          => /\ ev'.fin.calls = 0 => (ev'.fin.pre.age <= 3600
                                       /\ ev'.fin.result = ev'.fin.pre.flat)
             /\ ev'.fin.pre.age > 3600 => ev'.fin.calls > 0
             /\ ev'.fin.pre.age < 3600 => ev'.fin.calls = 0

\* C4: a lookup returns the stored value only while the entry is not older than
\* 3600 s; an older entry is reported absent and deleted by that lookup; an entry
\* is removed only by a lookup of its own key or by clear_cache, and changed only
\* by a store under its own key.
C4_FlatCacheTtl == [][C4_Step]_vars

\* an expired entry was looked up and deleted while another expired entry stays
C4_Witness ==
    \E k \in DOMAIN cache, j \in ev.looked :
        /\ now - cache[k].timestamp > 3600
        /\ j # k /\ j \notin DOMAIN cache
        /\ ~ev.cleared

StageRank(st) ==
    CASE st = "CheckStructured" -> 1
      [] st = "CheckFlat" -> 2
      [] st = "Resolve" -> 3
      [] st = "CacheAndReturn" -> 4

InOrder(trail) ==
    \A i, j \in 1..Len(trail) : i < j => StageRank(trail[i]) < StageRank(trail[j])

\* The locations of the records the structured cache holds for (prov, name)
RecordLocations(prov, name) ==
    {PyTuple(r.v.repo_name, r.v.path) : r \in Records(structured_cache, prov, name)}

Coordinated == {"resolve", "versions", "zip"}

\* C6: an operation whose resolution of the coordinate was not answered from a
\* cache (a scan or a probe ran) has stored an entry under
\* location:{namespace}:{name}:{provider}, found or not, in every configuration.
C6_LocationStored ==
    (fin.op \in Coordinated /\ InSeq("Resolve", fin.trail)) => fin.key \in fin.wrote

\* The tag name without its first character when that is 'v'
StripOneV(t) == IF StartsWith(t, "v") THEN Drop(t, 1) ELSE t

\* C7: the version of every tag is the tag name with exactly one leading 'v'
\* removed, in the listing versions() fetches and in the version list of every
\* scanned record.
C7_StripOneV ==
    /\ (fin.op = "versions" /\ fin.listing # PyNone)
          => {fin.result.v[i] : i \in 1..Len(fin.result.v)}
               = {StripOneV(fin.listing.v[i].name) : i \in 1..Len(fin.listing.v)}
    /\ \A name \in NamesFor(settings), prov \in Providers :
          \A r \in Records(structured_cache, prov, name) :
             r.v.versions # <<>>
                => LET tags == upstream.repos[r.v.repo_name].tags IN
                   r.v.versions = [i \in 1..Len(tags) |-> StripOneV(tags[i].name)]

\* C8: the sequence versions() returns from a fetched listing has the length of
\* the listing and its i-th element is the normalised i-th tag.
C8_OrderPreserved ==
    (fin.op = "versions" /\ fin.listing # PyNone)
        => /\ fin.result.py = "versions"
           /\ Len(fin.result.v) = Len(fin.listing.v)
           /\ \A i \in 1..Len(fin.listing.v) :
                 fin.result.v[i] = StripOneV(fin.listing.v[i].name)

\* C9: versions() that starts when the structured cache holds a record for
\* (provider, name) with a non-empty version list returns that list with no
\* remote call and no flat cache access; it goes remote only when there is none.
C9_PrefersStructured ==
    /\ (fin.op = "versions" /\ fin.pre.vers # {})
          => /\ fin.result.py = "versions" /\ fin.result.v \in fin.pre.vers
             /\ fin.calls = 0 /\ fin.flat = 0 /\ fin.wrote = {}
    /\ \A t \in Tasks : (tasks[t].op = "versions" /\ tasks[t].calls > 0)
                            => tasks[t].pre.vers = {}
    /\ (fin.op = "versions" /\ fin.calls > 0) => fin.pre.vers = {}

C9_Witness ==
    /\ fin.op = "versions" /\ fin.pre.vers # {}
    /\ VersionsKey(fin.ns, fin.name, fin.prov) \in DOMAIN cache
    /\ fin.result.v \in fin.pre.vers /\ fin.calls = 0 /\ fin.flat = 0

\* What C10 says of one call of get_module_source_zip
RetryOnce(k) ==
    /\ \/ k.dl = <<>>
       \/ k.dl = <<"v" \o k.ver>>
       \/ k.dl = <<"v" \o k.ver, k.ver>> /\ k.dlres # <<>> /\ k.dlres[1] # 200
    /\ (k.pc = "done" /\ Len(k.dlres) = 2 /\ k.dlres[2] # 200) => k.result = PyNone
    /\ (k.pc = "done" /\ Len(k.dlres) = 1) => k.dlres[1] = 200

\* C10: the archive is requested for v{version} first, for {version} only after
\* the first request did not succeed, never more than twice in all, and the call
\* returns nothing when both requests fail.
C10_DownloadRetry ==
    /\ \A t \in Tasks : tasks[t].op = "zip" => RetryOnce(tasks[t])
    /\ fin.op = "zip" => RetryOnce(fin)

C10_Witness ==
    /\ fin.op = "zip" /\ fin.dl = <<"v" \o fin.ver, fin.ver>>
    /\ Len(fin.dlres) = 2 /\ fin.dlres[1] # 200 /\ fin.dlres[2] # 200
    /\ fin.result = PyNone

\* The root directory under which every entry of the snapshot src lives
SnapRoot(src) ==
    CHOOSE r \in {Split(src[i].filename, "/")[1] : i \in 1..Len(src)} :
        \A i \in 1..Len(src) : StartsWith(src[i].filename, r \o "/")

\* 'R/modules/P/' for the snapshot and the relative path of the finished call k
ModulePrefix(k) == SnapRoot(k.snap.v) \o "/modules/" \o k.rel \o "/"

\* The source entries of k's snapshot that lie under prefix pre
Under(k, pre) ==
    {i \in 1..Len(k.snap.v) :
        /\ StartsWith(k.snap.v[i].filename, pre)
        /\ k.snap.v[i].filename # pre}

NotAZip == PyStr("not a zip file")

\* C11: a download that arrives with status 200 and bytes that are no archive
\* ends the call in the step that receives it: nothing is returned, no further
\* download is requested (after a corrupt v{version} download the {version} tag
\* is not tried), and neither cache changes in that step.
C11_Step ==
    LET f == ev'.fin IN
    (f.op = "zip" /\ f.snap = NotAZip) =>
        /\ f.result = PyNone
        /\ Len(f.dl) = Len(f.dlres) /\ f.dlres[Len(f.dlres)] = 200
        /\ cache' = cache /\ structured_cache' = structured_cache

C11_CorruptArchive == [][C11_Step]_vars

C11_Witness ==
    /\ fin.op = "zip" /\ fin.snap = NotAZip
    /\ fin.dl = <<"v" \o fin.ver>> /\ fin.dlres = <<200>>
    /\ fin.result = PyNone

\* C12: a returned archive built for a resolved relative path P from a snapshot
\* under root R has exactly one entry for every source entry that starts with
\* 'R/modules/P/' and is not that prefix, named by the rest of the path and with
\* the same data, and no other entry; an entry of a sibling directory whose name
\* only starts with P is not included.
C12_ArchiveFiltering ==
    (fin.op = "zip" /\ fin.result.py = "zip" /\ StrTruthy(fin.rel)) =>
        LET src == fin.snap.v
            out == fin.result.v
            pre == ModulePrefix(fin)
            under == Under(fin, pre)
        IN
        /\ Len(out) = Cardinality(under)
        /\ \A i \in under :
              Cardinality({j \in 1..Len(out) :
                  /\ pre \o out[j].filename = src[i].filename
                  /\ out[j].data = src[i].data}) = 1
        /\ \A j \in 1..Len(out) :
              \E i \in under : /\ pre \o out[j].filename = src[i].filename
                               /\ out[j].data = src[i].data

\* an archive of two files was built from a snapshot that also holds a sibling
\* directory whose name starts with the module's
C12_Witness ==
    /\ fin.op = "zip" /\ fin.result.py = "zip" /\ fin.rel = "net/vpc"
    /\ \E j \in 1..Len(fin.result.v) :
          fin.result.v[j] = Entry("main.tf", "#modules/net/vpc/main.tf")
    /\ \E i \in 1..Len(fin.snap.v) :
          /\ StartsWith(fin.snap.v[i].filename, SnapRoot(fin.snap.v) \o "/modules/net/vpc")
          /\ ~StartsWith(fin.snap.v[i].filename, ModulePrefix(fin))
          /\ fin.snap.v[i].data # ""
    /\ \A j \in 1..Len(fin.result.v) : ~Contains(fin.result.v[j].data, "vpc2")

\* The prefix the entries of k's archive were under in the snapshot: with a
\* resolved relative path 'R/modules/P/', with one repository per module 'R/'
SearchPrefix(k) ==
    IF StrTruthy(k.rel) THEN ModulePrefix(k) ELSE SnapRoot(k.snap.v) \o "/"

\* C13: no entry path of a returned archive contains the snapshot's root
\* directory name or the top-level prefix 'modules'.
C13_NoRootNoPrefix ==
    (fin.op = "zip" /\ fin.result.py = "zip") =>
        \A j \in 1..Len(fin.result.v) :
            /\ ~Contains(fin.result.v[j].filename, SnapRoot(fin.snap.v))
            /\ ~Contains(fin.result.v[j].filename, Prefix)

\* C13 as the code has it: every entry path of a returned archive is a snapshot
\* entry's path with the leading search prefix (the root directory and, for a
\* resolved relative path, 'modules/' and that path) removed, and is not empty.
C13_PrefixRemoved ==
    (fin.op = "zip" /\ fin.result.py = "zip") =>
        \A j \in 1..Len(fin.result.v) :
            /\ fin.result.v[j].filename # ""
            /\ \E i \in 1..Len(fin.snap.v) :
                  fin.snap.v[i].filename = SearchPrefix(fin) \o fin.result.v[j].filename

\* the module of the returned archive has a directory modules/ of its own
C13_Witness ==
    /\ fin.op = "zip" /\ fin.result.py = "zip" /\ fin.rel = "net/vpc"
    /\ \E j \in 1..Len(fin.result.v) : fin.result.v[j].filename = "modules/sub.tf"

\* C14: when the snapshot decodes and none of its entries lies under the search
\* prefix, a snapshot without any entry included, the call returns an empty
\* archive.
C14_EmptyMatch ==
    (/\ fin.op = "zip" /\ fin.snap.py = "zip"
     /\ \/ Len(fin.snap.v) = 0
        \/ Under(fin, SearchPrefix(fin)) = {})
    => fin.result = PyZip(<<>>)

\* The relative paths of the module directories of a tree: the directories
\* under modules/ that hold a .tf file, example, fixture and test directories
\* left out
ModuleDirs(tree) ==
    {Drop(d, Len("modules/")) : d \in
        {x \in {DirName(tree[i].path) : i \in {y \in 1..Len(tree) :
                    tree[y].type = "blob" /\ EndsWith(tree[y].path, ".tf")}} :
            /\ StartsWith(x, "modules/") /\ Len(x) > Len("modules/")
            /\ \A c \in {"examples", "fixtures", "tests"} : ~InSeq(c, Split(x, "/"))}}

\* What a scan over repos finds when the repositories in failed are skipped:
\* a (repository, relative path) pair for each module directory of the others
Remaining(repos, failed) ==
    UNION {{<<repos[j], d>> : d \in ModuleDirs(upstream.repos[repos[j]].tree)} :
              j \in {x \in 1..Len(repos) : repos[x] \notin failed}}

\* C15: a scan that went through the provider's repositories, some of them
\* answering the metadata or the tree request with a failure, does not raise and
\* returns one record for each module directory of each repository that did not
\* fail, and none for the others; a repository without module directory adds
\* no record.
C15_PartialScan ==
    (fin.op = "scan" /\ fin.repos # <<>>) =>
        /\ fin.result.py = "list"
        /\ {<<fin.result.v[i].repo_name, fin.result.v[i].path>> : i \in 1..Len(fin.result.v)}
              = Remaining(fin.repos, fin.failed)
        /\ Len(fin.result.v) = Cardinality(Remaining(fin.repos, fin.failed))

\* Every record the structured cache s holds under provider prov, with the
\* group, parent and name it is stored at
Stored(s, prov) ==
    UNION { UNION { UNION { {[g |-> s[p].v.groups[g].k,
                               pa |-> s[p].v.groups[g].v.parents[pa].k,
                               n |-> s[p].v.groups[g].v.parents[pa].v.modules[m].k,
                               rec |-> s[p].v.groups[g].v.parents[pa].v.modules[m].v] :
                                  m \in 1..Len(s[p].v.groups[g].v.parents[pa].v.modules)}
                            : pa \in 1..Len(s[p].v.groups[g].v.parents) }
                    : g \in 1..Len(s[p].v.groups) }
            : p \in {q \in 1..Len(s) : s[q].k = prov} }

\* C16: get_modules_for_provider(p) called while p is a key of the structured
\* cache returns in the same step without a remote request, leaves both caches
\* as they are and returns exactly the records stored under p; a second call
\* right after it returns the same records.
C16_Step ==
    \A t \in Tasks :
        LET k == IF tasks'[t].op = "idle" THEN ev'.fin ELSE tasks'[t] IN
        (/\ tasks[t].op = "idle" /\ started' = started + 1
         /\ k.op = "scan"
         /\ \E p \in 1..Len(structured_cache) : structured_cache[p].k = k.prov)
        =>
        /\ k.pc = "done" /\ k.calls = 0 /\ k.result.py = "list"
        /\ cache' = cache /\ structured_cache' = structured_cache
        /\ {k.result.v[i] : i \in 1..Len(k.result.v)}
              = {x.rec : x \in Stored(structured_cache, k.prov)}
        /\ Len(k.result.v) = Cardinality(Stored(structured_cache, k.prov))
        /\ (ev.fin.op = "scan" /\ ev.fin.prov = k.prov /\ ev.fin.calls = 0 /\ ev.fin.flat = 0)
              => k.result = ev.fin.result

C16_ServedFromCache == [][C16_Step]_vars

\* two records were returned from the cache
C16_Witness ==
    /\ fin.op = "scan" /\ fin.calls = 0 /\ fin.flat = 0
    /\ fin.result.py = "list" /\ Len(fin.result.v) = 2
    /\ Cardinality(Stored(structured_cache, fin.prov)) = 2

\* The naming rule of the scan, from a relative path: '/' and '-' become '_'
\* and one leading 'modules_' or 'module_' is cut; the group is the first
\* component, the parent the second of more than two, 'general' otherwise
NameOfPath(path) ==
    LET u == Join(Split(Join(Split(path, "/"), "_"), "-"), "_") IN
    IF StartsWith(u, "modules_") THEN Drop(u, Len("modules_"))
    ELSE IF StartsWith(u, "module_") THEN Drop(u, Len("module_"))
    ELSE u

GroupOfPath(path) == Split(path, "/")[1]

ParentOfPath(path) ==
    IF Len(Split(path, "/")) > 2 THEN Split(path, "/")[2] ELSE "general"

\* C17: every record stored at [provider p][group g][parent pa][name n] has
\* provider p, group slug g, parent slug pa and name n, and g, pa and n are what
\* the naming rule gives for the record's own relative path.
C17_PositionInvariant ==
    \A q \in 1..Len(structured_cache) :
        \A x \in Stored(structured_cache, structured_cache[q].k) :
            /\ x.rec.provider = structured_cache[q].k
            /\ x.rec.group_slug = x.g /\ x.rec.parent_slug = x.pa /\ x.rec.name = x.n
            /\ x.g = GroupOfPath(x.rec.path)
            /\ x.pa = ParentOfPath(x.rec.path)
            /\ x.n = NameOfPath(x.rec.path)

\* a record is stored under a parent folder of its own
C17_Witness ==
    \E x \in Stored(structured_cache, "aws") :
        x.rec.path = "a/b/c" /\ x.g = "a" /\ x.pa = "b" /\ x.n = "a_b_c"

\* C18: within one provider's subtree a name is stored in at most one (group,
\* parent) node; of two directories that flatten to one name only the record
\* written last remains.
C18_NameUnique ==
    \A q \in 1..Len(structured_cache) :
        \A x, y \in Stored(structured_cache, structured_cache[q].k) :
            x.n = y.n => (x.g = y.g /\ x.pa = y.pa)

\* The records a scan coroutine k has built so far
Built(k) == IF k.op = "scan" THEN {k.all_modules[i] : i \in 1..Len(k.all_modules)} ELSE {}

\* C19: whatever scans are in flight, every entry of the structured cache that
\* a step adds or changes is, field for field, a record that the scan taking
\* the step built in that step; the other entries stay as they were.  So every
\* record in the cache was written whole by one scan invocation.
C19_Step ==
    \A q \in 1..Len(structured_cache') :
        LET p == structured_cache'[q].k IN
        \A x \in Stored(structured_cache', p) \ Stored(structured_cache, p) :
            \E t \in Tasks :
                LET k == IF tasks'[t].op = "idle" THEN ev'.fin ELSE tasks'[t] IN
                /\ tasks[t].op = "scan" /\ k.op = "scan" /\ k.prov = p
                /\ x.rec \in Built(k) \ Built(tasks[t])

C19_RecordAtomicity == [][C19_Step]_vars

\* a scan of a provider is in flight and has built its record of a module,
\* another scan of the provider returns, its record of the module differs in
\* two fields, and the cache holds the one written last
C19_Witness ==
    \E t \in Tasks :
        /\ tasks[t].op = "scan" /\ fin.op = "scan" /\ tasks[t].prov = fin.prov
        /\ \E a \in Built(tasks[t]), b \in Built(fin) :
              /\ a.name = b.name /\ a.path = b.path
              /\ a.versions # b.versions /\ a.readme_content # b.readme_content
              /\ \E x \in Stored(structured_cache, fin.prov) : x.rec = b

---------------------------------------------------------------------------
\* C20: no step of a resolve, versions, archive, readme, examples, repository
\* details or providers lookup adds, removes or changes an entry of the structured
\* cache: it changes only in a step of a provider scan or of clear_cache
C20_Step ==
    structured_cache' # structured_cache =>
        \/ ev'.cleared
        \/ ev'.fin.op = "scan"
        \/ \E t \in Tasks : tasks'[t] # tasks[t] /\ tasks'[t].op = "scan"

---------------------------------------------------------------------------
\* C21: between two clear_cache calls every resolution of a coordinate returns
\* the same Location: a resolution that starts while the flat cache holds the
\* found Location an earlier resolution of the coordinate stored returns that
\* Location, whichever path answers it.  Stated for the runs in which no
\* upstream request fails.
C21_LocationStable ==
    (fails = 0 /\ fin.op = "resolve" /\ Found(fin.pre.flat))
        => fin.result = fin.pre.flat

---------------------------------------------------------------------------
\* The existence checks of coroutine k, in order, follow the probing rule
ProbeRule(k) ==
    LET n == Len(k.probes) IN
    /\ n <= 2
    /\ n >= 1 => k.probes[1].repo = k.name
    /\ n = 2 => /\ k.probes[1].status # 200
                /\ k.probes[2].repo = "terraform-" \o k.prov \o "-" \o k.name

\* The repository the probing rule names after these existence checks
ProbeResult(probes) ==
    LET hit == {i \in 1..Len(probes) : probes[i].status = 200} IN
    IF hit = {} THEN NoneStr
    ELSE probes[CHOOSE i \in hit : \A j \in hit : i <= j].repo

\* C24: with one repository per module, the repository named `name` is probed
\* first, terraform-{provider}-{name} only after a first probe that did not
\* return 200; at most two existence checks are made; the first probe that
\* returned 200 names the result, and without one the coordinate is unresolved.
C24_ProbeOrder ==
    /\ \A t \in Tasks : ProbeRule(tasks[t])
    /\ ProbeRule(fin)
    /\ Len(fin.probes) >= 1 =>
          /\ ~IsMonorepo
          /\ fin.probes[Len(fin.probes)].status # 200 => Len(fin.probes) = 2
          /\ fin.repo = ProbeResult(fin.probes)
          /\ fin.op = "resolve" => fin.result = PyTuple(ProbeResult(fin.probes), "")

\* the conventional name was probed after a 404 for the plain name, and exists
C24_Witness ==
    /\ fin.op = "resolve" /\ fails = 0
    /\ Len(fin.probes) = 2 /\ fin.probes[1].status = 404
    /\ fin.result = PyTuple("terraform-aws-db", "")

---------------------------------------------------------------------------
\* The repository has a module-definition file directly in directory dir
HasModuleFile(repo, dir) ==
    \E i \in 1..Len(upstream.repos[repo].tree) :
        LET item == upstream.repos[repo].tree[i] IN
        /\ item.type = "blob" /\ EndsWith(item.path, ".tf")
        /\ item.path = dir \o "/" \o Split(item.path, "/")[Len(Split(item.path, "/"))]

\* The repository has a directory dir
HasDirectory(repo, dir) ==
    \E i \in 1..Len(upstream.repos[repo].tree) :
        LET item == upstream.repos[repo].tree[i] IN
        \/ item.type = "tree" /\ item.path = dir
        \/ StartsWith(item.path, dir \o "/")

\* The relative paths of the directories under modules/ of the repository
RelDirs(repo) ==
    {Drop(d, Len("modules/")) :
        d \in {x \in {DirName(upstream.repos[repo].tree[i].path) :
                        i \in 1..Len(upstream.repos[repo].tree)} :
                 StartsWith(x, "modules/")}}

\* a shared-repository resolution that went through the candidates' trees
ColdResolve(k) == k.op = "resolve" /\ IsMonorepo /\ Len(k.cands) > 0 /\ k.calls > 0

\* C25: whenever some candidate repository has a directory under modules/ that
\* directly holds a module-definition file and flattens to the name, the
\* resolution returns a file-based match; a directory-only match is returned
\* only without one.  Stated for the runs in which no upstream request fails.
C25_FileMatchFirst ==
    (fails = 0 /\ ColdResolve(fin)
       /\ \E j \in 1..Len(fin.cands) : fin.cands[j] \in DOMAIN upstream.repos
             /\ \E rel \in RelDirs(fin.cands[j]) :
                   NameOfPath(rel) = fin.name /\ HasModuleFile(fin.cands[j], "modules/" \o rel))
        => /\ Found(fin.result)
           /\ HasModuleFile(fin.result.v[1], "modules/" \o fin.result.v[2])

\* C26: every Location (repo, rel) a shared-repository resolution finds in the
\* trees is a directory modules/rel of repo; a directory that only shares the
\* string prefix is never matched.
C26_UnderPrefix ==
    (ColdResolve(fin) /\ Found(fin.result))
        => HasDirectory(fin.result.v[1], "modules/" \o fin.result.v[2])

\* C27: a repository with a module-definition file directly in modules/ has a
\* module with relative path "": a scan that read the repository returns a
\* record with path "" for it, and the resolution of its name returns
\* (repository, "").
C27_PrefixModule ==
    /\ (fin.op = "scan" /\ fin.result.py = "list")
          => \A j \in 1..Len(fin.repos) :
                (fin.repos[j] \notin fin.failed /\ HasModuleFile(fin.repos[j], "modules"))
                  => \E i \in 1..Len(fin.result.v) :
                        fin.result.v[i].repo_name = fin.repos[j] /\ fin.result.v[i].path = ""
    /\ (fails = 0 /\ ColdResolve(fin) /\ fin.name = "")
          => \A j \in 1..Len(fin.cands) :
                (fin.cands[j] \in DOMAIN upstream.repos /\ HasModuleFile(fin.cands[j], "modules"))
                  => Found(fin.result) /\ fin.result.v[2] = ""

---------------------------------------------------------------------------
Auxiliary == {"examples", "fixtures", "tests"}

NoAuxiliary(path) == \A i \in 1..Len(Split(path, "/")) : Split(path, "/")[i] \notin Auxiliary

\* C28: no record of the structured cache and no record a scan returns has a
\* path with a component examples, fixtures or tests, at any depth.
C28_NoAuxiliary ==
    /\ \A q \in 1..Len(structured_cache) :
          \A x \in Stored(structured_cache, structured_cache[q].k) : NoAuxiliary(x.rec.path)
    /\ (fin.op = "scan" /\ fin.result.py = "list")
          => \A i \in 1..Len(fin.result.v) : NoAuxiliary(fin.result.v[i].path)

\* a scan read a repository with module files in a tests directory and
\* returned the records of its other modules
C28_Witness ==
    /\ fin.op = "scan" /\ fin.result.py = "list" /\ Len(fin.result.v) > 0
    /\ \E j \in 1..Len(fin.repos) :
          /\ fin.repos[j] \notin fin.failed
          /\ HasModuleFile(fin.repos[j], "modules/net/vpc/tests")
    /\ \E x \in Stored(structured_cache, fin.prov) : x.rec.path = "net/vpc/peering"

---------------------------------------------------------------------------
\* The scan k asked for the tags of each repository at most once, and the
\* records it built for one repository carry one version list
TagsOnce(k) ==
    /\ \A i, j \in 1..Len(k.tagged) : k.tagged[i] = k.tagged[j] => i = j
    /\ \A a, b \in Built(k) : a.repo_name = b.repo_name => a.versions = b.versions

\* C30: within one scan the tag list of each repository is requested at most
\* once, however many modules the repository has, and all records of that
\* repository produced by the scan carry the same version list.
C30_TagsOncePerRepo ==
    /\ \A t \in Tasks : TagsOnce(tasks[t])
    /\ TagsOnce(fin)

\* a scan asked for the tags of a repository with two modules, and went
\* through another repository twice after its tag request had failed
C30_Witness ==
    /\ fin.op = "scan" /\ fin.result.py = "list"
    /\ \E i \in 1..Len(fin.tagged) :
          \E a, b \in Built(fin) :
             /\ a.path # b.path
             /\ a.repo_name = fin.tagged[i] /\ b.repo_name = fin.tagged[i]
             /\ a.versions # <<>>
    /\ \E i, j \in 1..Len(fin.repos) :
          /\ i < j /\ fin.repos[i] = fin.repos[j] /\ fin.repos[i] \notin fin.failed
          /\ \E a \in Built(fin) : a.repo_name = fin.repos[i] /\ a.versions = <<>>

---------------------------------------------------------------------------
\* The warmup coroutine has not returned yet
WarmupRunning == \E t \in Tasks : tasks[t].op = "warmup"

\* The Locations the trees of the candidates of resolution k hold for its name
TreeLocations(k) ==
    UNION {{PyTuple(k.cands[j], rel) : rel \in {x \in RelDirs(k.cands[j]) : NameOfPath(x) = k.name}} :
              j \in {x \in 1..Len(k.cands) : k.cands[x] \in DOMAIN upstream.repos}}

\* C22: a resolution that starts when the structured cache has no record for
\* its module and returns while the warmup is still running has not waited for
\* it: after the structured cache it looked into the flat cache and returned
\* the entry found there, or went through the candidates' trees on its own,
\* stored what it found and returned it.
C22_DuringWarmup ==
    (fin.op = "resolve" /\ fin.result.py = "tuple" /\ ~fin.pre.sc /\ WarmupRunning) =>
        \/ /\ fin.trail = <<"CheckStructured", "CheckFlat">>
           /\ Truthy(fin.pre.flat) /\ fin.result = fin.pre.flat /\ fin.calls = 0
        \/ /\ fin.trail = <<"CheckStructured", "CheckFlat", "Resolve", "CacheAndReturn">>
           /\ ~Truthy(fin.pre.flat) /\ fin.calls >= 1
           /\ fin.key \in fin.wrote
           /\ Found(fin.result) => fin.result \in TreeLocations(fin)
           /\ fails = 0 => (Found(fin.result) <=> TreeLocations(fin) # {})

\* a resolution found its module in the trees and returned while the warmup,
\* past its access check, was still waiting for a response
C22_Witness ==
    /\ fin.op = "resolve" /\ ~fin.pre.sc /\ Found(fin.result) /\ fin.calls >= 2
    /\ \E t \in Tasks : tasks[t].op = "warmup" /\ tasks[t].access /\ tasks[t].req # NoReq

---------------------------------------------------------------------------
\* C23: the warmup started at process start finishes, and when it has
\* finished after a successful access check, with no clear_cache since it
\* started, every provider that providers() returned to it is a key of the
\* structured cache.
C23_WarmupComplete ==
    (fin.op = "warmup" /\ fin.access /\ ~hist.warmclear) =>
        \A i \in 1..Len(fin.plist) : DictHas(structured_cache, fin.plist[i].name)

---------------------------------------------------------------------------
(* C31 *)

\* The rule as the specification words it, on the segments of a relative
\* path: one leading segment modules or module is removed, and the name of
\* any other path does not start with modules_ or module_
SegmentRule(name, path) ==
    LET segs == Split(path, "/") IN
    IF segs[1] \in {"modules", "module"}
    THEN name = Replace(Join(Tail(segs), "_"), "-", "_")
    ELSE ~StartsWith(name, "modules_") /\ ~StartsWith(name, "module_")

\* C31: the name of every record a scan returns, and the name every
\* shared-repository resolution found a Location for, follows from the
\* relative path by the segment rule: a leading segment modules or module is
\* removed exactly once, and no other path gets a name that starts with
\* modules_ or module_.
C31_FlattenRule ==
    /\ (fin.op = "scan" /\ fin.result.py = "list") =>
           \A i \in 1..Len(fin.result.v) :
               SegmentRule(fin.result.v[i].name, fin.result.v[i].path)
    /\ (fin.op = "resolve" /\ IsMonorepo /\ Found(fin.result) /\ fin.calls > 0) =>
           SegmentRule(fin.name, fin.result.v[2])

---------------------------------------------------------------------------
(* C32 *)

\* C32: a provider scan returns a list of records and never raises, also when
\* clear_cache ran while the scan was suspended at a request.
C32_ScanSurvivesClear ==
    fin.op = "scan" => fin.result.py = "list"

---------------------------------------------------------------------------
(* C33 *)

\* The repositories providers() lists for provider prov when every listing
\* request is answered by the upstream as it is
BackingRepos(prov) ==
    LET plist == IF settings.monorepo_name # ""
                 THEN << [name |-> PinnedProvider(settings.monorepo_name),
                          repos |-> <<settings.monorepo_name>>] >>
                 ELSE ProviderList(Concat(upstream.pages))
        mine == SelectSeq(plist, LAMBDA p : p.name = prov)
    IN IF Len(mine) = 0 THEN <<>> ELSE mine[1].repos

\* a call of get_modules_for_provider that was answered from the structured cache
FromStructured(k) == k.op = "scan" /\ k.calls = 0 /\ k.flat = 0 /\ k.result.py = "list"

\* C33: with a healthy upstream, a list get_modules_for_provider(p) returns
\* from the structured cache holds a record for every module directory of
\* every repository of p, also while another scan of p is suspended at a
\* request.
C33_NoPartialProvider ==
    (FromStructured(fin) /\ fails = 0) =>
        Remaining(BackingRepos(fin.prov), {})
            \subseteq {<<fin.result.v[i].repo_name, fin.result.v[i].path>> :
                          i \in 1..Len(fin.result.v)}

---------------------------------------------------------------------------
(* C34 *)

\* C34: when no scan is in flight, get_modules_for_provider(p) returns an
\* empty list from the structured cache only if the repositories of p hold no
\* module: a scan that skipped its repositories because of failed requests is
\* not remembered as an empty provider.
C34_FailedScanForgotten ==
    (FromStructured(fin) /\ Len(fin.result.v) = 0 /\ \A t \in Tasks : tasks[t].op = "idle") =>
        Remaining(BackingRepos(fin.prov), {}) = {}

---------------------------------------------------------------------------
(* C35 *)

\* the flat-cache key of a lookup of examples, repository details or providers
ResultKey(k) ==
    CASE k.op = "examples" -> ExamplesKey(k)
      [] k.op = "details" -> DetailsKey(k)
      [] OTHER -> "providers"

C35_Step ==
    \A t \in Tasks :
        LET k == IF tasks'[t].op = "idle" THEN ev'.fin ELSE tasks'[t] IN
        (/\ tasks[t].op = "idle" /\ started' = started + 1
         /\ k.op \in {"examples", "details", "providers"}
         /\ Fresh(cache, ResultKey(k), now))
        =>
        /\ k.pc = "done" /\ k.calls = 0
        /\ k.result = cache[ResultKey(k)].data

\* C35: a lookup of examples, repository details or providers that starts
\* while the flat cache holds an entry for it that is younger than the TTL,
\* whatever the stored value (also an empty list or None), returns that value
\* in the same step without any remote request.
C35_EmptyCached == [][C35_Step]_vars

---------------------------------------------------------------------------
(* C36 *)

\* C36: in shared-repository mode the repository of every found Location
\* that resolve(namespace, name, provider) returns is one of the repositories
\* providers() lists for that provider.
C36_RespectsProvider ==
    (fin.op = "resolve" /\ IsMonorepo /\ Found(fin.result)) =>
        InSeq(fin.result.v[1], BackingRepos(fin.prov))

---------------------------------------------------------------------------
(* C37 *)

\* C37: with a healthy upstream, a resolution of (namespace, name, provider)
\* that found neither a record nor a flat-cache entry returns (repository,
\* path) of every module directory of the provider's repositories whose
\* record is called name, that is of every record a scan of the provider
\* produces under that name.
C37_RoundTrip ==
    (/\ fin.op = "resolve" /\ IsMonorepo /\ fails = 0
     /\ ~fin.pre.sc /\ ~Truthy(fin.pre.flat) /\ fin.calls > 0) =>
        \A loc \in Remaining(BackingRepos(fin.prov), {}) :
            FlatName(loc[2]) = fin.name => fin.result = PyTuple(loc[1], loc[2])

---------------------------------------------------------------------------
(* C38 *)

\* How far the listing loop of get_providers has come: two requests at most
\* for each page, the second one to the users endpoint
ListRank(k) == 2 * k.page + (IF k.pc = "p_users" THEN 1 ELSE 0)

C38_Step ==
    \A t \in Tasks :
        (tasks[t].op = "providers" /\ tasks'[t] # tasks[t]) =>
            \/ /\ tasks'[t].op = "idle" /\ ev'.fin.op = "providers"
               /\ \/ ev'.fin.page = MaxPage + 1
                  \/ ev'.fin.page = tasks[t].page /\ ev'.fin.all_repos = tasks[t].all_repos
            \/ /\ tasks'[t].op = "providers"
               /\ tasks'[t].page \in 1..MaxPage
               /\ tasks'[t].req.page = tasks'[t].page
               /\ ListRank(tasks'[t]) > ListRank(tasks[t])

\* C38: every step of the listing loop of get_providers either ends the loop
\* or moves on, from the organization request of a page to its user request
\* or to the next page, and no page after page 100 is requested; the loop ends
\* once page 100 was added, or on a response that adds no page (a non-200
\* response or an empty page).  The loop takes 200 requests at most.
C38_ListingTerminates == [][C38_Step]_vars

\* the listing that never ends was read up to page 100 and no further
C38_Witness ==
    /\ settings = PiedSettings
    /\ fin.op = "providers" /\ fin.page = MaxPage + 1
    /\ Len(fin.all_repos) = MaxPage /\ fin.calls = 2 * MaxPage

---------------------------------------------------------------------------
(* C39 *)

IssuedAt(code) ==
    LET i == CHOOSE x \in 1..Len(auth.issued) : auth.issued[x].code = code IN auth.issued[i].ts

WasIssued(code) == \E i \in 1..Len(auth.issued) : auth.issued[i].code = code

====
